---------------------------- MODULE Spec2Model ----------------------------
(***************************************************************************)
(* A model of the CH340 USB serial driver (src/ch340.c).                   *)
(*                                                                         *)
(* Seven specifications share the definitions below.                       *)
(*                                                                         *)
(*  - Spec: every driver entry point (port_probe, open, close,             *)
(*    set_termios, dtr_rts, reset_resume, port_remove) is one action       *)
(*    that runs the whole handler.  The device and the USB core are an     *)
(*    environment that decides, per call, which of the handler's calls     *)
(*    fail.  The calls a handler made are kept in last.log, in order.      *)
(*                                                                         *)
(*  - SpecLines: the modem-line calls (tiocmset, dtr_rts) on an open port, *)
(*    in the same way.                                                     *)
(*                                                                         *)
(*  - SpecMonitor: the interrupt-URB completion handler                    *)
(*    (ch340_read_int_callback with ch340_update_status) as one action     *)
(*    per delivery, with the transition counters.                          *)
(*                                                                         *)
(*  - SpecConc: the same handlers cut at their lock/unlock and I/O points, *)
(*    run by concurrent contexts, with the URB life cycle of the USB core. *)
(*                                                                         *)
(*  - SpecModem: the modem-line calls of SpecConc alone, running           *)
(*    concurrently on an open port with every transfer succeeding.         *)
(*                                                                         *)
(*  - SpecBaud: ch340_set_baudrate_lcr alone, over windows of baud rates.  *)
(*                                                                         *)
(*  - SpecRegs: ch340_break_ctl and the baud/frame writes against the      *)
(*    device's break and LCR registers.                                    *)
(***************************************************************************)
EXTENDS Integers, Sequences, FiniteSets, TLC

VARIABLES
    priv,        \* struct ch340_private: baud_rate, mcr, msr, lcr
    claimed,     \* usb_set_serial_port_data(port, priv) was done
    termios,     \* tty->termios, kept by the tty core across calls
    initialized, \* tty_port_initialized(&port->port): the port is open
    urb,         \* port->interrupt_in_urb as the driver left it: "submitted",
                 \* or "idle" (never submitted, or killed)
    icount,      \* port->icount: cts, dsr, rng, dcd
    tty,         \* SpecMonitor: port->port.tty is set (tty_port_tty_get)
    last,        \* the most recent handler call: its inputs, transfers, result
    pc,          \* SpecConc: where each context is in its handler
    lock,        \* SpecConc: holder of priv->lock, or "free"
    loc,         \* SpecConc: each context's local variables
    urbc,        \* SpecConc: the URB in the USB core: queued, unlinked,
                 \* reject count
    dev          \* the device: break register, LCR register, and the modem
                 \* control byte it last received

vars == <<priv, claimed, termios, initialized, urb, icount, tty, last,
          pc, lock, loc, urbc, dev>>

-----------------------------------------------------------------------------
(* Program constants *)

DEFAULT_BAUD_RATE == 9600
CH340_BIT_RTS == 64
CH340_BIT_DTR == 32
CH340_MULT_STAT == 4
CH340_BIT_CTS == 1
CH340_BIT_DSR == 2
CH340_BIT_RI == 4
CH340_BIT_DCD == 8
CH340_BITS_MODEM_STAT == 15
CH340_BAUDBASE_FACTOR == 6000000
CH340_BAUDBASE_DIVMAX == 3
CH340_REQ_READ_VERSION == 95
CH340_REQ_WRITE_REG == 154
CH340_REQ_READ_REG == 149
CH340_REQ_SERIAL_INIT == 161
CH340_REQ_MODEM_CTRL == 164
CH340_REG_BREAK == 5
CH340_REG_LCR == 24
CH340_NBREAK_BITS == 1
CH340_LCR_ENABLE_RX == 128
CH340_LCR_ENABLE_TX == 64
CH340_LCR_MARK_SPACE == 32
CH340_LCR_PAR_EVEN == 16
CH340_LCR_ENABLE_PAR == 8
CH340_LCR_STOP_BITS_2 == 4
CH340_LCR_CS8 == 3
CH340_LCR_CS7 == 2
CH340_LCR_CS6 == 1
CH340_LCR_CS5 == 0
REG_BAUD == 4882
REG_LCR2 == 9496
REG_STATUS == 1798

(* errno values the driver names *)
EIO == 5
EINVAL == 22
ENOMEM == 12
ECONNRESET == 104
ENOENT == 2
ESHUTDOWN == 108

U8 == 256
U16 == 65536

-----------------------------------------------------------------------------
(* Sequencing.  Then(x, K) evaluates x once and continues with K on its     *)
(* value, as a C statement sequence does with a local variable.            *)

Then(x, K(_)) == CHOOSE y \in {K(v) : v \in {x}} : TRUE

-----------------------------------------------------------------------------
(* C bit operations on non-negative integers *)

RECURSIVE AndR(_, _)
AndR(a, b) ==
    IF a = 0 \/ b = 0 THEN 0
    ELSE (a % 2) * (b % 2) + 2 * AndR(a \div 2, b \div 2)

RECURSIVE OrR(_, _)
OrR(a, b) ==
    IF a = 0 THEN b
    ELSE IF b = 0 THEN a
    ELSE (IF a % 2 = 1 \/ b % 2 = 1 THEN 1 ELSE 0) + 2 * OrR(a \div 2, b \div 2)

RECURSIVE XorR(_, _)
XorR(a, b) ==
    IF a = 0 THEN b
    ELSE IF b = 0 THEN a
    ELSE ((a + b) % 2) + 2 * XorR(a \div 2, b \div 2)

BitAnd(a, b) == CHOOSE r \in {AndR(x, y) : x \in {a}, y \in {b}} : TRUE
BitOr(a, b) == CHOOSE r \in {OrR(x, y) : x \in {a}, y \in {b}} : TRUE
BitXor(a, b) == CHOOSE r \in {XorR(x, y) : x \in {a}, y \in {b}} : TRUE

\* ~x of a u8 stored back into a u8
Not8(x) == (U8 - 1) - x
\* ~x of a u8, promoted to int, passed as a u16 argument
Not16(x) == (U16 - 1) - x
\* x &= ~m on a u8
Clear8(x, m) == BitAnd(x, Not8(m))

RTS_DTR == BitOr(CH340_BIT_RTS, CH340_BIT_DTR)

-----------------------------------------------------------------------------
(* The environment of one handler call.                                    *)
(* F is the set of positions, in the order the handler reaches them, of    *)
(* the calls into the USB core that fail; k is what a failing IN transfer  *)
(* returns: a negative errno, or a byte count shorter than asked.          *)

XferErr == 0 - ESHUTDOWN

Fails(log, F) == (Len(log) + 1) \in F

Entry(kind, request, value, index, r) ==
    [kind |-> kind, request |-> request, value |-> value, index |-> index, r |-> r]

\* ch340_control_out with wValue and wIndex the other way round
control_out_swapped(log, F, request, value, index) ==
    Then(IF Fails(log, F) THEN XferErr ELSE 0, LAMBDA r :
         [log |-> Append(log, Entry("out", request, index, value, r)), r |-> r])

\* usb_control_msg, OUT, no data stage: 0, or a negative errno
ch340_control_out(log, F, request, value, index) ==
    Then(IF Fails(log, F) THEN XferErr ELSE 0, LAMBDA r :
         [log |-> Append(log, Entry("out", request, value, index, r)), r |-> r])

\* ch340_control_in without the short-read check of lines 131-137
control_in_no_short_check(log, F, k, request, value, index, bufsize) ==
    Then(IF Fails(log, F) THEN k ELSE bufsize, LAMBDA got :
    Then(IF got < 0 THEN got ELSE 0, LAMBDA r :
         [log |-> Append(log, Entry("in", request, value, index,
                                    IF got < bufsize /\ got >= 0 THEN 0 - EIO ELSE r)),
          r |-> r]))

\* usb_control_msg, IN, bufsize bytes asked: fewer bytes than asked is -EIO
ch340_control_in(log, F, k, request, value, index, bufsize) ==
    Then(IF Fails(log, F) THEN k ELSE bufsize, LAMBDA got :
    Then(IF got < bufsize THEN (IF got >= 0 THEN 0 - EIO ELSE got) ELSE 0, LAMBDA r :
         [log |-> Append(log, Entry("in", request, value, index, r)), r |-> r]))

\* usb_submit_urb, usb_serial_generic_open, usb_serial_generic_resume, kmalloc
CoreCall(log, F, kind) ==
    Then(IF Fails(log, F) THEN XferErr ELSE 0, LAMBDA r :
         [log |-> Append(log, Entry(kind, 0, 0, 0, r)), r |-> r])

\* usb_kill_urb, usb_serial_generic_close: no result
CoreVoid(log, kind) == Append(log, Entry(kind, 0, 0, 0, 0))

-----------------------------------------------------------------------------
(* Baud rate synthesis: ch340_set_baudrate_lcr, lines 157-217 *)

\* DIV_ROUND_CLOSEST on unsigned int operands.  x is at most 12,000,000 and
\* d is below 2^31 for every rate modelled, so x + d/2 does not wrap.
DIV_ROUND_CLOSEST(x, d) == (x + (d \div 2)) \div d

\* the loops of lines 165-169 and 189-193
RECURSIVE Reduce(_, _, _)
Reduce(factor, divisor, div) ==
    IF factor > 255 /\ divisor # 0
    THEN Reduce(factor \div 8, divisor - 1, div * 8)
    ELSE [factor |-> factor, divisor |-> divisor, div |-> div]

\* one candidate: lines 161-174 (base clock) and 185-199 (doubled clock);
\* diff is -1 where the code would divide by zero
Candidate(base, baud) ==
    Then(Reduce(DIV_ROUND_CLOSEST(base, baud), CH340_BAUDBASE_DIVMAX, 1), LAMBDA c :
    Then(c.factor * c.div, LAMBDA den :
    Then(IF den = 0 THEN 0 ELSE DIV_ROUND_CLOSEST(base, den), LAMBDA res :
         [factor |-> c.factor, divisor |-> c.divisor, div |-> c.div,
          diff |-> IF den = 0 THEN 0 - 1
                   ELSE IF res > baud THEN res - baud ELSE baud - res])))

\* lines 178-207 with the doubled clock never taken
choose_always_single(c1, c2) ==
    [factor |-> c1.factor, divisor |-> c1.divisor, x2 |-> 0]

\* lines 178-207 with the doubled clock taken on an equal diff as well
choose_prefers_double(c1, c2) ==
    IF c2.factor > 8 /\ c2.diff <= c1.diff
    THEN [factor |-> c2.factor, divisor |-> c2.divisor, x2 |-> 1]
    ELSE [factor |-> c1.factor, divisor |-> c1.divisor, x2 |-> 0]

\* lines 178-180 and 195-207: the double clock is taken when its factor is
\* above 8 and its diff is strictly smaller
Choose(c1, c2) ==
    IF c2.factor > 8 /\ c2.diff < c1.diff
    THEN [factor |-> c2.factor, divisor |-> c2.divisor, x2 |-> 1]
    ELSE [factor |-> c1.factor, divisor |-> c1.divisor, x2 |-> 0]

\* lines 213-223.  factor = 0x100 - best_factor is an unsigned int: below
\* zero it wraps to 2^32 - (best_factor - 256), which is above 0xfe.
Payload(best) ==
    Then(256 - best.factor, LAMBDA factor :
         IF factor < 0 \/ factor > 254
         THEN [trap |-> FALSE, err |-> 0 - EINVAL, factor |-> factor,
               divisor |-> best.divisor, x2 |-> best.x2, a |-> 0]
         ELSE [trap |-> FALSE, err |-> 0, factor |-> factor,
               divisor |-> best.divisor, x2 |-> best.x2,
               a |-> BitOr(BitOr(BitOr((factor * 256) % U16, best.divisor),
                                 best.x2 * 4), 128)])

\* The plan for baud > 0.  trap: the base-clock factor is 0 and
\* DIV_ROUND_CLOSEST divides by zero (line 173).  Where that division traps
\* the call does not return; where it yields a value, whatever the value,
\* the doubled-clock factor is below 9, best_factor stays 0 and line 214
\* rejects the rate: that is the plan given here.
BaudPlan(baud) ==
    Then(Candidate(CH340_BAUDBASE_FACTOR, baud), LAMBDA c1 :
         IF c1.diff < 0
         THEN [trap |-> TRUE, err |-> 0 - EINVAL, factor |-> 256, divisor |-> c1.divisor,
               x2 |-> 0, a |-> 0]
         ELSE Then(Candidate(CH340_BAUDBASE_FACTOR * 2, baud), LAMBDA c2 :
                   Payload(Choose(c1, c2))))

\* ch340_set_baudrate_lcr that writes the frame register whatever the baud
\* write returned
set_baudrate_lcr_both_writes(p, lcr, log, F) ==
    IF p.baud_rate = 0 THEN [log |-> log, r |-> 0 - EINVAL]
    ELSE
    Then(BaudPlan(p.baud_rate), LAMBDA plan :
         IF plan.err # 0 THEN [log |-> log, r |-> plan.err]
         ELSE
         Then(ch340_control_out(log, F, CH340_REQ_WRITE_REG, REG_BAUD, plan.a), LAMBDA w1 :
              ch340_control_out(w1.log, F, CH340_REQ_WRITE_REG, REG_LCR2, lcr)))

\* ch340_set_baudrate_lcr(dev, priv, lcr)
ch340_set_baudrate_lcr(p, lcr, log, F) ==
    IF p.baud_rate = 0 THEN [log |-> log, r |-> 0 - EINVAL]
    ELSE
    Then(BaudPlan(p.baud_rate), LAMBDA plan :
         IF plan.err # 0 THEN [log |-> log, r |-> plan.err]
         ELSE
         Then(ch340_control_out(log, F, CH340_REQ_WRITE_REG, REG_BAUD, plan.a), LAMBDA w1 :
              IF w1.r # 0 THEN w1
              ELSE ch340_control_out(w1.log, F, CH340_REQ_WRITE_REG, REG_LCR2, lcr)))

\* ch340_set_handshake(dev, control)
ch340_set_handshake(control, log, F) ==
    ch340_control_out(log, F, CH340_REQ_MODEM_CTRL, Not16(control), 0)

\* ch340_get_status(dev, priv); sb is the first byte the device returns
ch340_get_status(p, log, F, k, sb) ==
    Then(CoreCall(log, F, "kmalloc"), LAMBDA m :
         IF m.r # 0 THEN [priv |-> p, log |-> m.log, r |-> 0 - ENOMEM]
         ELSE
         Then(ch340_control_in(m.log, F, k, CH340_REQ_READ_REG, REG_STATUS, 0, 2),
              LAMBDA i :
              IF i.r < 0 THEN [priv |-> p, log |-> i.log, r |-> i.r]
              ELSE [priv |-> [p EXCEPT !.msr = BitAnd(Not8(sb), CH340_BITS_MODEM_STAT)],
                    log |-> i.log, r |-> i.r]))

\* ch340_configure(dev, priv)
ch340_configure(p, log, F, k) ==
    Then(CoreCall(log, F, "kmalloc"), LAMBDA m :
         IF m.r # 0 THEN [log |-> m.log, r |-> 0 - ENOMEM]
         ELSE
         Then(ch340_control_in(m.log, F, k, CH340_REQ_READ_VERSION, 0, 0, 2), LAMBDA v :
              IF v.r < 0 THEN v
              ELSE
              Then(ch340_control_out(v.log, F, CH340_REQ_SERIAL_INIT, 0, 0), LAMBDA s :
                   IF s.r < 0 THEN s
                   ELSE
                   Then(ch340_set_baudrate_lcr(p, p.lcr, s.log, F), LAMBDA b :
                        IF b.r < 0 THEN b
                        ELSE ch340_set_handshake(p.mcr, b.log, F)))))

-----------------------------------------------------------------------------
(* Line settings: tty->termios as the driver reads it *)

Termios(baud, csize, parenb, parodd, cmspar, cstopb) ==
    [baud |-> baud, csize |-> csize, parenb |-> parenb, parodd |-> parodd,
     cmspar |-> cmspar, cstopb |-> cstopb]

\* tty_std_termios: B9600 | CS8
StdTermios == Termios(DEFAULT_BAUD_RATE, 8, FALSE, FALSE, FALSE, FALSE)

\* the lcr byte of ch340_set_termios, lines 416-442
LcrOf(t) ==
    BitOr(BitOr(BitOr(CH340_LCR_ENABLE_RX, CH340_LCR_ENABLE_TX),
                CASE t.csize = 5 -> CH340_LCR_CS5
                  [] t.csize = 6 -> CH340_LCR_CS6
                  [] t.csize = 7 -> CH340_LCR_CS7
                  [] t.csize = 8 -> CH340_LCR_CS8),
          BitOr(IF t.parenb
                THEN BitOr(CH340_LCR_ENABLE_PAR,
                           BitOr(IF ~t.parodd THEN CH340_LCR_PAR_EVEN ELSE 0,
                                 IF t.cmspar THEN CH340_LCR_MARK_SPACE ELSE 0))
                ELSE 0,
                IF t.cstopb THEN CH340_LCR_STOP_BITS_2 ELSE 0))

\* tty_termios_hw_change(&tty->termios, old_termios)
tty_termios_hw_change(a, b) == a # b

\* lines 456-460: the RTS/DTR bits follow a change from or to B0
TermiosMcr(mcr, t, hasOld, old) ==
    IF t.baud = 0
    THEN Clear8(mcr, RTS_DTR)
    ELSE IF hasOld /\ old.baud = 0
    THEN BitOr(mcr, RTS_DTR)
    ELSE mcr

\* lines 444-454 with priv->lcr assigned whatever the writes returned
termios_step_lcr_always(p, t, hasOld, old, log, F) ==
    IF t.baud = 0
    THEN [priv |-> p, termios |-> t, log |-> log, step |-> "b0", r |-> 0]
    ELSE
    Then(LcrOf(t), LAMBDA lcr :
    Then(ch340_set_baudrate_lcr([p EXCEPT !.baud_rate = t.baud], lcr, log, F), LAMBDA s :
         IF s.r < 0 /\ hasOld
         THEN [priv |-> [p EXCEPT !.baud_rate = old.baud, !.lcr = lcr], termios |-> old,
               log |-> s.log, step |-> "failed", r |-> s.r]
         ELSE IF s.r = 0
         THEN [priv |-> [p EXCEPT !.baud_rate = t.baud, !.lcr = lcr], termios |-> t,
               log |-> s.log, step |-> "ok", r |-> s.r]
         ELSE [priv |-> [p EXCEPT !.baud_rate = t.baud, !.lcr = lcr], termios |-> t,
               log |-> s.log, step |-> "failed", r |-> s.r]))

\* lines 444-454: the baud/frame step and what it leaves in priv and termios
TermiosStep(p, t, hasOld, old, log, F) ==
    IF t.baud = 0
    THEN [priv |-> p, termios |-> t, log |-> log, step |-> "b0", r |-> 0]
    ELSE
    Then(LcrOf(t), LAMBDA lcr :
    Then(ch340_set_baudrate_lcr([p EXCEPT !.baud_rate = t.baud], lcr, log, F), LAMBDA s :
         IF s.r < 0 /\ hasOld
         THEN [priv |-> [p EXCEPT !.baud_rate = old.baud], termios |-> old,
               log |-> s.log, step |-> "failed", r |-> s.r]
         ELSE IF s.r = 0
         THEN [priv |-> [p EXCEPT !.baud_rate = t.baud, !.lcr = lcr], termios |-> t,
               log |-> s.log, step |-> "ok", r |-> s.r]
         ELSE [priv |-> [p EXCEPT !.baud_rate = t.baud], termios |-> t,
               log |-> s.log, step |-> "failed", r |-> s.r]))

\* ch340_set_termios(tty, port, old_termios); t is tty->termios on entry
ch340_set_termios(p, t, hasOld, old, log, F) ==
    IF hasOld /\ ~tty_termios_hw_change(t, old)
    THEN [priv |-> p, termios |-> t, log |-> log, step |-> "skipped", r |-> 0]
    ELSE
    Then(TermiosStep(p, t, hasOld, old, log, F), LAMBDA s :
    Then(TermiosMcr(s.priv.mcr, s.termios, hasOld, old), LAMBDA mcr :
    Then(ch340_set_handshake(mcr, s.log, F), LAMBDA h :
         [priv |-> [s.priv EXCEPT !.mcr = mcr], termios |-> s.termios, log |-> h.log,
          step |-> s.step, r |-> s.r])))

-----------------------------------------------------------------------------
(* Bounds of the handler-level model *)

\* at most this many of one handler's calls into the core fail
MaxFail == 1

\* the environments of a handler that makes at most n calls into the core
FailSets(n) == {F \in SUBSET (1..n) : Cardinality(F) <= MaxFail}
FailKinds == {XferErr, 1}

\* rates a line-settings request may ask for: B0, two usual rates, and one
\* the divisor scheme cannot represent
Bauds == {0, DEFAULT_BAUD_RATE, 115200, CH340_BAUDBASE_FACTOR}
TermiosSet ==
    {Termios(b, 8, FALSE, FALSE, FALSE, FALSE) : b \in Bauds}
    \cup {Termios(115200, 7, TRUE, FALSE, FALSE, TRUE)}

\* first byte of the status register pair, as the device returns it
StatusBytes == {255, 247}

ModemBits == {"RTS", "DTR"}

-----------------------------------------------------------------------------
(* State of the handler-level model *)

\* kzalloc'ed private data
ZeroPriv == [baud_rate |-> 0, mcr |-> 0, msr |-> 0, lcr |-> 0]

NoCall ==
    [op |-> "none", ret |-> 0, log |-> <<>>, pre |-> ZeroPriv, step |-> "na",
     hasOld |-> FALSE, old |-> StdTermios, wasOpen |-> FALSE]

Call(op, ret, log, pre, step, hasOld, old, wasOpen) ==
    [op |-> op, ret |-> ret, log |-> log, pre |-> pre, step |-> step,
     hasOld |-> hasOld, old |-> old, wasOpen |-> wasOpen]

ZeroCount == [cts |-> 0, dsr |-> 0, rng |-> 0, dcd |-> 0]

\* the device before any transfer: no break, the frame of the chip's reset
\* (receiver and transmitter on, 8 bits), no modem control byte received
DevReset ==
    [brk |-> CH340_NBREAK_BITS,
     lcr |-> BitOr(BitOr(CH340_LCR_ENABLE_RX, CH340_LCR_ENABLE_TX), CH340_LCR_CS8),
     hs |-> 0 - 1]

ConcIdle ==
    /\ pc = <<>>
    /\ lock = "free"
    /\ loc = <<>>
    /\ urbc = [queued |-> FALSE, reject |-> 0, unlinked |-> FALSE]
    /\ dev = DevReset

Init ==
    /\ priv = ZeroPriv
    /\ claimed = FALSE
    /\ termios = StdTermios
    /\ initialized = FALSE
    /\ urb = "idle"
    /\ icount = ZeroCount
    /\ tty = FALSE
    /\ last = NoCall
    /\ ConcIdle

NotConc == UNCHANGED <<icount, tty, pc, lock, loc, urbc, dev>>

-----------------------------------------------------------------------------
(* Handlers, one action each *)

Finish(op, ret, log, step, hasOld) ==
    last' = Call(op, ret, log, priv, step, hasOld, termios, initialized)

\* ch340_port_probe(port)
ch340_port_probe(F, k) ==
    /\ ~claimed
    /\ \E m \in {CoreCall(<<>>, F, "kzalloc")} :
         IF m.r # 0
         THEN /\ Finish("port_probe", 0 - ENOMEM, m.log, "na", FALSE)
              /\ UNCHANGED <<priv, claimed>>
         ELSE \E p \in {[ZeroPriv EXCEPT
                           !.baud_rate = DEFAULT_BAUD_RATE,
                           !.lcr = BitOr(BitOr(CH340_LCR_ENABLE_RX, CH340_LCR_ENABLE_TX),
                                         CH340_LCR_CS8)]} :
              \E c \in {ch340_configure(p, m.log, F, k)} :
                 /\ Finish("port_probe", c.r, c.log, "na", FALSE)
                 /\ IF c.r < 0
                    THEN UNCHANGED <<priv, claimed>>
                    ELSE priv' = p /\ claimed' = TRUE
    /\ UNCHANGED <<termios, initialized, urb>>
    /\ NotConc

\* ch340_port_remove(port), after the core has closed the port
ch340_port_remove ==
    /\ claimed
    /\ ~initialized
    /\ priv' = ZeroPriv
    /\ claimed' = FALSE
    /\ Finish("port_remove", 0, <<>>, "na", FALSE)
    /\ UNCHANGED <<termios, initialized, urb>>
    /\ NotConc

\* what ch340_open leaves behind
Opened(ret, log, p, t, step, opened, sb) ==
    /\ last' = Call("open", ret, log, priv, step, FALSE, termios, initialized) @@ [sb |-> sb]
    /\ priv' = p
    /\ termios' = t
    /\ initialized' = opened
    /\ urb' = IF opened THEN "submitted" ELSE "idle"

\* ch340_open without the usb_kill_urb of its error path
open_no_kill(hasTty, F, k, sb) ==
    /\ claimed
    /\ ~initialized
    /\ \E s \in {IF hasTty
                 THEN ch340_set_termios(priv, termios, FALSE, termios, <<>>, F)
                 ELSE [priv |-> priv, termios |-> termios, log |-> <<>>,
                       step |-> "na", r |-> 0]} :
       \E u \in {CoreCall(s.log, F, "submit")} :
         IF u.r # 0 THEN Opened(u.r, u.log, s.priv, s.termios, s.step, FALSE, sb)
         ELSE
         \E g \in {ch340_get_status(s.priv, u.log, F, k, sb)} :
           \E o \in {IF g.r < 0 THEN [log |-> g.log, r |-> g.r]
                                 ELSE CoreCall(g.log, F, "generic_open")} :
             /\ last' = Call("open", o.r, o.log, priv, s.step, FALSE, termios,
                             initialized) @@ [sb |-> sb]
             /\ priv' = g.priv
             /\ termios' = s.termios
             /\ initialized' = (o.r = 0)
             /\ urb' = "submitted"
    /\ UNCHANGED claimed
    /\ NotConc

\* ch340_open(tty, port); hasTty: tty is not NULL
ch340_open(hasTty, F, k, sb) ==
    /\ claimed
    /\ ~initialized
    /\ \E s \in {IF hasTty
                 THEN ch340_set_termios(priv, termios, FALSE, termios, <<>>, F)
                 ELSE [priv |-> priv, termios |-> termios, log |-> <<>>,
                       step |-> "na", r |-> 0]} :
       \E u \in {CoreCall(s.log, F, "submit")} :
         IF u.r # 0 THEN Opened(u.r, u.log, s.priv, s.termios, s.step, FALSE, sb)
         ELSE
         \E g \in {ch340_get_status(s.priv, u.log, F, k, sb)} :
           IF g.r < 0
           THEN Opened(g.r, CoreVoid(g.log, "kill"), g.priv, s.termios, s.step, FALSE, sb)
           ELSE
           \E o \in {CoreCall(g.log, F, "generic_open")} :
             IF o.r # 0
             THEN Opened(o.r, CoreVoid(o.log, "kill"), g.priv, s.termios, s.step, FALSE, sb)
             ELSE Opened(0, o.log, g.priv, s.termios, s.step, TRUE, sb)
    /\ UNCHANGED claimed
    /\ NotConc

\* ch340_close(port)
ch340_close ==
    /\ claimed
    /\ initialized
    /\ Finish("close", 0, CoreVoid(CoreVoid(<<>>, "generic_close"), "kill"), "na", FALSE)
    /\ initialized' = FALSE
    /\ urb' = "idle"
    /\ UNCHANGED <<priv, claimed, termios>>
    /\ NotConc

\* tty_set_termios() stores the request in tty->termios and calls
\* ch340_set_termios(tty, port, &old)
SetTermios(new, F) ==
    /\ claimed
    /\ initialized
    /\ \E s \in {ch340_set_termios(priv, new, TRUE, termios, <<>>, F)} :
         /\ priv' = s.priv
         /\ termios' = s.termios
         /\ Finish("set_termios", s.r, s.log, s.step, TRUE)
    /\ UNCHANGED <<claimed, initialized, urb>>
    /\ NotConc

\* ch340_dtr_rts(port, on)
ch340_dtr_rts(on, F) ==
    /\ claimed
    /\ initialized
    /\ \E mcr \in {IF on THEN BitOr(priv.mcr, RTS_DTR) ELSE Clear8(priv.mcr, RTS_DTR)} :
       \E h \in {ch340_set_handshake(mcr, <<>>, F)} :
         /\ priv' = [priv EXCEPT !.mcr = mcr]
         /\ Finish("dtr_rts", 0, h.log, "na", FALSE)
    /\ UNCHANGED <<claimed, termios, initialized, urb>>
    /\ NotConc

\* lines 518-525 with the set bits toggled, not set
tiocm_mcr_toggle(mcr, set, clear) ==
    Then(IF "RTS" \in set THEN BitXor(mcr, CH340_BIT_RTS) ELSE mcr, LAMBDA a :
    Then(IF "DTR" \in set THEN BitXor(a, CH340_BIT_DTR) ELSE a, LAMBDA b :
    Then(IF "RTS" \in clear THEN Clear8(b, CH340_BIT_RTS) ELSE b, LAMBDA c :
         IF "DTR" \in clear THEN Clear8(c, CH340_BIT_DTR) ELSE c)))

\* the new mcr of ch340_tiocmset, lines 518-525
TiocmMcr(mcr, set, clear) ==
    Then(IF "RTS" \in set THEN BitOr(mcr, CH340_BIT_RTS) ELSE mcr, LAMBDA a :
    Then(IF "DTR" \in set THEN BitOr(a, CH340_BIT_DTR) ELSE a, LAMBDA b :
    Then(IF "RTS" \in clear THEN Clear8(b, CH340_BIT_RTS) ELSE b, LAMBDA c :
         IF "DTR" \in clear THEN Clear8(c, CH340_BIT_DTR) ELSE c)))

\* ch340_tiocmset(tty, set, clear)
ch340_tiocmset(set, clear, F) ==
    /\ claimed
    /\ initialized
    /\ \E mcr \in {TiocmMcr(priv.mcr, set, clear)} :
       \E h \in {ch340_set_handshake(mcr, <<>>, F)} :
         /\ priv' = [priv EXCEPT !.mcr = mcr]
         /\ last' = Call("tiocmset", h.r, h.log, priv, "na", FALSE, termios,
                         initialized) @@ [set |-> set, clear |-> clear]
    /\ UNCHANGED <<claimed, termios, initialized, urb>>
    /\ NotConc

\* what ch340_reset_resume leaves behind
Resumed(ret, log, p, sub) ==
    /\ Finish("reset_resume", ret, log, "na", FALSE)
    /\ priv' = p
    /\ urb' = IF sub THEN "submitted" ELSE "idle"

\* ch340_reset_resume with the submit failure only reported (no return at
\* line 650)
reset_resume_no_return(F, k, sb) ==
    /\ claimed
    /\ \E c \in {ch340_configure(priv, <<>>, F, k)} :
         IF initialized
         THEN \E u \in {CoreCall(c.log, F, "submit")} :
              \E g \in {IF u.r # 0
                        THEN [priv |-> priv, log |-> u.log, r |-> u.r]
                        ELSE ch340_get_status(priv, u.log, F, k, sb)} :
              \E e \in {CoreCall(g.log, F, "generic_resume")} :
                 Resumed(e.r, e.log, g.priv, u.r = 0)
         ELSE \E e \in {CoreCall(c.log, F, "generic_resume")} :
                Resumed(e.r, e.log, priv, FALSE)
    /\ UNCHANGED <<claimed, termios, initialized>>
    /\ NotConc

\* ch340_reset_resume(serial); the core's suspend has killed the port's URBs
ch340_reset_resume(F, k, sb) ==
    /\ claimed
    /\ \E c \in {ch340_configure(priv, <<>>, F, k)} :
         IF initialized
         THEN \E u \in {CoreCall(c.log, F, "submit")} :
                IF u.r # 0
                THEN Resumed(u.r, u.log, priv, FALSE)
                ELSE \E g \in {ch340_get_status(priv, u.log, F, k, sb)} :
                     \E e \in {CoreCall(g.log, F, "generic_resume")} :
                        Resumed(e.r, e.log, g.priv, TRUE)
         ELSE \E e \in {CoreCall(c.log, F, "generic_resume")} :
                Resumed(e.r, e.log, priv, FALSE)
    /\ UNCHANGED <<claimed, termios, initialized>>
    /\ NotConc

\* The number given to FailSets is the number of calls into the core on the
\* handler's longest path.
Next ==
    \/ \E F \in FailSets(7), k \in FailKinds : ch340_port_probe(F, k)
    \/ ch340_port_remove
    \/ \E hasTty \in BOOLEAN, F \in FailSets(7), k \in FailKinds, sb \in StatusBytes :
          ch340_open(hasTty, F, k, sb)
    \/ ch340_close
    \/ \E new \in TermiosSet, F \in FailSets(3) : SetTermios(new, F)
    \/ \E on \in BOOLEAN, F \in FailSets(1) : ch340_dtr_rts(on, F)
    \/ \E F \in FailSets(10), k \in FailKinds, sb \in StatusBytes :
          ch340_reset_resume(F, k, sb)

Spec == Init /\ [][Next]_vars

-----------------------------------------------------------------------------
(* The modem-line calls on an open port.  mcr starts at any value the      *)
(* calls can leave in it.                                                  *)

InitLines ==
    /\ priv \in {[ZeroPriv EXCEPT
                    !.baud_rate = DEFAULT_BAUD_RATE,
                    !.lcr = BitOr(BitOr(CH340_LCR_ENABLE_RX, CH340_LCR_ENABLE_TX),
                                  CH340_LCR_CS8),
                    !.mcr = m] : m \in {0, CH340_BIT_DTR, CH340_BIT_RTS, RTS_DTR}}
    /\ claimed = TRUE
    /\ termios = StdTermios
    /\ initialized = TRUE
    /\ urb = "submitted"
    /\ icount = ZeroCount
    /\ tty = TRUE
    /\ last = NoCall
    /\ ConcIdle

NextLines ==
    \/ \E set \in SUBSET ModemBits, clear \in SUBSET ModemBits, F \in FailSets(1) :
          ch340_tiocmset(set, clear, F)
    \/ \E on \in BOOLEAN, F \in FailSets(1) : ch340_dtr_rts(on, F)

SpecLines == InitLines /\ [][NextLines]_vars


-----------------------------------------------------------------------------
(* The status monitor: the completion handler of the interrupt URB *)

\* most transitions counted per line
MaxCount == 2

\* urb->status values: success, the three the handler takes as teardown,
\* and one other error
Teardown == {0 - ECONNRESET, 0 - ENOENT, 0 - ESHUTDOWN}
UrbStatuses == {0, 0 - EIO} \cup Teardown

\* urb->transfer_buffer: four bytes, the third the inverted status
Notifications ==
    {<<8, 0, b2, 238>> : b2 \in {255, 247, 7, 254, 244, 251}}
    \cup {<<8, CH340_MULT_STAT, 253, 238>>}
\* urb->actual_length
Lengths == {3, 4}
NoData == <<0, 0, 0, 0>>

Bump(cnt, delta, bit) == IF BitAnd(delta, bit) # 0 THEN cnt + 1 ELSE cnt

\* ch340_update_status with the DCD event raised with the status before the
\* change
update_status_old_dcd(p, cnt, data, len, hasTty) ==
    IF len < 4 THEN [priv |-> p, icount |-> cnt, dcd |-> <<>>]
    ELSE
    Then(BitAnd(Not8(data[3]), CH340_BITS_MODEM_STAT), LAMBDA status :
    Then(BitXor(status, p.msr), LAMBDA delta :
         [priv |-> [p EXCEPT !.msr = status],
          icount |-> [cts |-> Bump(cnt.cts, delta, CH340_BIT_CTS),
                      dsr |-> Bump(cnt.dsr, delta, CH340_BIT_DSR),
                      rng |-> Bump(cnt.rng, delta, CH340_BIT_RI),
                      dcd |-> Bump(cnt.dcd, delta, CH340_BIT_DCD)],
          dcd |-> IF BitAnd(delta, CH340_BIT_DCD) # 0 /\ hasTty
                  THEN <<BitAnd(p.msr, CH340_BIT_DCD)>>
                  ELSE <<>>]))

\* ch340_update_status counting the lines that are set, not those that changed
update_status_counts_set(p, cnt, data, len, hasTty) ==
    IF len < 4 THEN [priv |-> p, icount |-> cnt, dcd |-> <<>>]
    ELSE
    Then(BitAnd(Not8(data[3]), CH340_BITS_MODEM_STAT), LAMBDA status :
    Then(BitXor(status, p.msr), LAMBDA delta :
         [priv |-> [p EXCEPT !.msr = status],
          icount |-> [cts |-> Bump(cnt.cts, status, CH340_BIT_CTS),
                      dsr |-> Bump(cnt.dsr, status, CH340_BIT_DSR),
                      rng |-> Bump(cnt.rng, status, CH340_BIT_RI),
                      dcd |-> Bump(cnt.dcd, status, CH340_BIT_DCD)],
          dcd |-> IF BitAnd(delta, CH340_BIT_DCD) # 0 /\ hasTty
                  THEN <<BitAnd(status, CH340_BIT_DCD)>>
                  ELSE <<>>]))

\* ch340_update_status(port, data, len); data[3] is the C data[2]; dcd: the
\* arguments of the usb_serial_handle_dcd_change calls made
ch340_update_status(p, cnt, data, len, hasTty) ==
    IF len < 4 THEN [priv |-> p, icount |-> cnt, dcd |-> <<>>]
    ELSE
    Then(BitAnd(Not8(data[3]), CH340_BITS_MODEM_STAT), LAMBDA status :
    Then(BitXor(status, p.msr), LAMBDA delta :
         [priv |-> [p EXCEPT !.msr = status],
          icount |-> [cts |-> Bump(cnt.cts, delta, CH340_BIT_CTS),
                      dsr |-> Bump(cnt.dsr, delta, CH340_BIT_DSR),
                      rng |-> Bump(cnt.rng, delta, CH340_BIT_RI),
                      dcd |-> Bump(cnt.dcd, delta, CH340_BIT_DCD)],
          dcd |-> IF BitAnd(delta, CH340_BIT_DCD) # 0 /\ hasTty
                  THEN <<BitAnd(status, CH340_BIT_DCD)>>
                  ELSE <<>>]))

\* the record of a delivery; valid: the third byte of the latest delivery
\* that ch340_update_status took, -1 before the first
Delivery(status, data, len, log, dcd, valid) ==
    [op |-> "read_int_callback", status |-> status, data |-> data, len |-> len,
     log |-> log, dcd |-> dcd, valid |-> valid]

LastValid == IF last.op = "read_int_callback" THEN last.valid ELSE 0 - 1

WithinCount(cnt) ==
    /\ cnt.cts <= MaxCount
    /\ cnt.dsr <= MaxCount
    /\ cnt.rng <= MaxCount
    /\ cnt.dcd <= MaxCount

\* ch340_read_int_callback that returns on every nonzero urb->status
read_int_callback_no_rearm(status, data, len, F) ==
    /\ urb = "submitted"
    /\ IF status # 0
       THEN /\ last' = Delivery(status, data, len, <<>>, <<>>, LastValid)
            /\ urb' = "idle"
            /\ UNCHANGED <<priv, icount>>
       ELSE \E u \in {ch340_update_status(priv, icount, data, len, tty)} :
            \E e \in {CoreCall(<<>>, F, "submit")} :
              /\ WithinCount(u.icount)
              /\ priv' = u.priv
              /\ icount' = u.icount
              /\ last' = Delivery(status, data, len, e.log, u.dcd,
                                  IF len < 4 THEN LastValid ELSE data[3])
              /\ urb' = IF e.r = 0 THEN "submitted" ELSE "idle"
    /\ UNCHANGED <<claimed, termios, initialized, tty, pc, lock, loc, urbc, dev>>

\* ch340_read_int_callback(urb)
ch340_read_int_callback(status, data, len, F) ==
    /\ urb = "submitted"
    /\ IF status \in Teardown
       THEN /\ last' = Delivery(status, data, len, <<>>, <<>>, LastValid)
            /\ urb' = "idle"
            /\ UNCHANGED <<priv, icount>>
       ELSE \E u \in {IF status = 0
                      THEN ch340_update_status(priv, icount, data, len, tty)
                      ELSE [priv |-> priv, icount |-> icount, dcd |-> <<>>]} :
            \E e \in {CoreCall(<<>>, F, "submit")} :
              /\ WithinCount(u.icount)
              /\ priv' = u.priv
              /\ icount' = u.icount
              /\ last' = Delivery(status, data, len, e.log, u.dcd,
                                  IF status = 0 /\ len >= 4 THEN data[3] ELSE LastValid)
              /\ urb' = IF e.r = 0 THEN "submitted" ELSE "idle"
    /\ UNCHANGED <<claimed, termios, initialized, tty, pc, lock, loc, urbc, dev>>

\* The port after ch340_open: the URB submitted, msr seeded by
\* ch340_get_status, a tty attached or (console open, tty == NULL) not.
InitMonitor ==
    /\ priv \in {[ZeroPriv EXCEPT
                    !.baud_rate = DEFAULT_BAUD_RATE,
                    !.lcr = BitOr(BitOr(CH340_LCR_ENABLE_RX, CH340_LCR_ENABLE_TX),
                                  CH340_LCR_CS8),
                    !.msr = BitAnd(Not8(sb), CH340_BITS_MODEM_STAT)] : sb \in StatusBytes}
    /\ claimed = TRUE
    /\ termios = StdTermios
    /\ initialized = TRUE
    /\ urb = "submitted"
    /\ icount = ZeroCount
    /\ tty \in BOOLEAN
    /\ last = NoCall
    /\ ConcIdle

NextMonitor ==
    \/ \E status \in UrbStatuses \ {0}, F \in FailSets(1) :
          ch340_read_int_callback(status, NoData, 0, F)
    \/ \E data \in Notifications, len \in Lengths, F \in FailSets(1) :
          ch340_read_int_callback(0, data, len, F)

SpecMonitor == InitMonitor /\ [][NextMonitor]_vars

-----------------------------------------------------------------------------
(* Concurrent contexts.  Each handler is cut where it takes or drops       *)
(* priv->lock, where it reads or writes a LineState field, and where it    *)
(* calls into the USB core; pc[c] names the statement context c executes   *)
(* next.  At a label of a control transfer or of a URB call that call is   *)
(* in progress, and the step at the label is its completion.               *)
(*   usr: a process in a tty call (set_termios, tiocmset, tiocmget,        *)
(*        carrier_raised);                                                 *)
(*   ctl: the path that opens, closes, suspends and resumes the port, and  *)
(*        drives DTR/RTS from there;                                       *)
(*   irq: the completion handler of the interrupt URB.                     *)
(* The transition counters and the DCD event are in SpecMonitor.           *)

Ctx == {"usr", "ctl", "irq"}

\* line settings asked for while calls run concurrently
ConcTermios == {StdTermios, Termios(0, 8, FALSE, FALSE, FALSE, FALSE)}
\* (set, clear) arguments of a concurrent ch340_tiocmset
ConcLines == {<<{"DTR"}, {}>>, <<{}, {"RTS", "DTR"}>>}

\* the locals of a context: return labels, tty->termios and old_termios of
\* ch340_set_termios, one u8 local, and r
NoLocal ==
    [stk |-> <<>>, t |-> StdTermios, hasOld |-> FALSE, old |-> StdTermios,
     v |-> 0, r |-> 0]

\* usb_submit_urb on a URB that usb_kill_urb is rejecting
EPERM == 1

\* the port after ch340_port_probe, closed, no call running
InitConc ==
    /\ priv = [ZeroPriv EXCEPT
                 !.baud_rate = DEFAULT_BAUD_RATE,
                 !.lcr = BitOr(BitOr(CH340_LCR_ENABLE_RX, CH340_LCR_ENABLE_TX),
                               CH340_LCR_CS8)]
    /\ claimed = TRUE
    /\ termios = StdTermios
    /\ initialized = FALSE
    /\ urb = "idle"
    /\ icount = ZeroCount
    /\ tty = FALSE
    /\ last = NoCall
    /\ pc = [c \in Ctx |-> "idle"]
    /\ lock = "free"
    /\ loc = [c \in Ctx |-> NoLocal]
    /\ urbc = [queued |-> FALSE, reject |-> 0, unlinked |-> FALSE]
    /\ dev = DevReset

ConcFixed == UNCHANGED <<claimed, icount, tty, last, dev>>

\* goto l
Jump(c, l) == pc' = [pc EXCEPT ![c] = l]
\* a handler is entered: continue at entry with locals f; rets are the
\* labels at which the calls it is in return, the last one "idle"
Begin(c, entry, rets, f) ==
    /\ pc' = [pc EXCEPT ![c] = entry]
    /\ loc' = [loc EXCEPT ![c] = [f EXCEPT !.stk = rets]]
\* a call: continue at entry with locals f, come back at ret
Enter(c, entry, ret, f) ==
    /\ pc' = [pc EXCEPT ![c] = entry]
    /\ loc' = [loc EXCEPT ![c] = [f EXCEPT !.stk = <<ret>> \o loc[c].stk]]
\* return r; a handler that returns leaves no locals, but the completion
\* handler's last usb_submit_urb status stays visible (dev_err, line 605)
Return(c, r) ==
    /\ pc' = [pc EXCEPT ![c] = Head(loc[c].stk)]
    /\ loc' = [loc EXCEPT ![c] =
                 IF Head(loc[c].stk) = "idle"
                 THEN [NoLocal EXCEPT !.r = IF c = "irq" THEN r ELSE 0]
                 ELSE [loc[c] EXCEPT !.stk = Tail(loc[c].stk), !.r = r]]

\* spin_lock_irqsave(&priv->lock, flags)
Acquire(c) == lock = "free" /\ lock' = c
\* spin_unlock_irqrestore(&priv->lock, flags)
Release(c) == lock' = "free"

\* usb_submit_urb(port->interrupt_in_urb): -EPERM while usb_kill_urb rejects,
\* else queued, or refused by the host controller
Submit(ok) ==
    IF urbc.reject > 0 THEN [urbc |-> urbc, r |-> 0 - EPERM]
    ELSE IF ok THEN [urbc |-> [urbc EXCEPT !.queued = TRUE, !.unlinked = FALSE], r |-> 0]
    ELSE [urbc |-> urbc, r |-> 0 - ENOMEM]

(* ch340_set_handshake(dev, control), control in loc[c].v: line 238 *)
\* the transfer completes; if it succeeded the device has taken ~control
set_handshake_done(c, ok) ==
    /\ pc[c] = "hs"
    /\ Return(c, IF ok THEN 0 ELSE XferErr)
    /\ dev' = IF ok THEN [dev EXCEPT !.hs = Not8(loc[c].v)] ELSE dev
    /\ UNCHANGED <<priv, termios, initialized, urb, lock, urbc>>
    /\ UNCHANGED <<claimed, icount, tty, last>>

(* ch340_set_baudrate_lcr(dev, priv, lcr) *)
\* lines 157-223: reads priv->baud_rate
set_baudrate_lcr_plan(c) ==
    /\ pc[c] = "bl_plan"
    /\ IF priv.baud_rate = 0
       THEN Return(c, 0 - EINVAL)
       ELSE \E plan \in {BaudPlan(priv.baud_rate)} :
              IF plan.err # 0 THEN Return(c, plan.err)
              ELSE Jump(c, "bl_divisor") /\ UNCHANGED loc
    /\ UNCHANGED <<priv, termios, initialized, urb, lock, urbc>>
    /\ ConcFixed

\* line 225
set_baudrate_lcr_divisor(c, ok) ==
    /\ pc[c] = "bl_divisor"
    /\ IF ok THEN Jump(c, "bl_lcr") /\ UNCHANGED loc ELSE Return(c, XferErr)
    /\ UNCHANGED <<priv, termios, initialized, urb, lock, urbc>>
    /\ ConcFixed

\* line 229
set_baudrate_lcr_lcr(c, ok) ==
    /\ pc[c] = "bl_lcr"
    /\ Return(c, IF ok THEN 0 ELSE XferErr)
    /\ UNCHANGED <<priv, termios, initialized, urb, lock, urbc>>
    /\ ConcFixed

(* ch340_get_status(dev, priv) *)
\* lines 248-254: kmalloc, then the status read
get_status_in(c, r, sb) ==
    /\ pc[c] = "gs_in"
    /\ IF r < 0 THEN Return(c, r)
       ELSE /\ Jump(c, "gs_lock")
            /\ loc' = [loc EXCEPT ![c].v = sb]
    /\ UNCHANGED <<priv, termios, initialized, urb, lock, urbc>>
    /\ ConcFixed

\* line 256
get_status_lock(c) ==
    /\ pc[c] = "gs_lock"
    /\ Acquire(c)
    /\ Jump(c, "gs_msr")
    /\ UNCHANGED <<priv, termios, initialized, urb, loc, urbc>>
    /\ ConcFixed

\* line 257
get_status_msr(c) ==
    /\ pc[c] = "gs_msr"
    /\ priv' = [priv EXCEPT !.msr = BitAnd(Not8(loc[c].v), CH340_BITS_MODEM_STAT)]
    /\ Jump(c, "gs_unlock")
    /\ UNCHANGED <<termios, initialized, urb, lock, loc, urbc>>
    /\ ConcFixed

\* lines 258-261
get_status_unlock(c) ==
    /\ pc[c] = "gs_unlock"
    /\ Release(c)
    /\ Return(c, 0)
    /\ UNCHANGED <<priv, termios, initialized, urb, urbc>>
    /\ ConcFixed

(* ch340_configure(dev, priv) *)
\* lines 272-279
configure_version(c, r) ==
    /\ pc[c] = "cf_version"
    /\ IF r < 0 THEN Return(c, r) ELSE Jump(c, "cf_init") /\ UNCHANGED loc
    /\ UNCHANGED <<priv, termios, initialized, urb, lock, urbc>>
    /\ ConcFixed

\* lines 282-284
configure_init(c, ok) ==
    /\ pc[c] = "cf_init"
    /\ IF ok THEN Jump(c, "cf_lcr") /\ UNCHANGED loc ELSE Return(c, XferErr)
    /\ UNCHANGED <<priv, termios, initialized, urb, lock, urbc>>
    /\ ConcFixed

\* line 286: reads priv->lcr
configure_lcr(c) ==
    /\ pc[c] = "cf_lcr"
    /\ Enter(c, "bl_plan", "cf_mcr", [loc[c] EXCEPT !.v = priv.lcr])
    /\ UNCHANGED <<priv, termios, initialized, urb, lock, urbc>>
    /\ ConcFixed

\* lines 287-293: reads priv->mcr; the handshake's result is configure's
configure_mcr(c) ==
    /\ pc[c] = "cf_mcr"
    /\ IF loc[c].r < 0 THEN Return(c, loc[c].r)
       ELSE /\ Jump(c, "hs")
            /\ loc' = [loc EXCEPT ![c].v = priv.mcr]
    /\ UNCHANGED <<priv, termios, initialized, urb, lock, urbc>>
    /\ ConcFixed

(* usb_kill_urb(port->interrupt_in_urb), lines 359 and 393 *)
\* atomic_inc(&urb->reject)
kill_urb_reject(c) ==
    /\ pc[c] = "kill_reject"
    /\ urbc' = [urbc EXCEPT !.reject = urbc.reject + 1]
    /\ Jump(c, "kill_unlink")
    /\ UNCHANGED <<priv, termios, initialized, urb, lock, loc>>
    /\ ConcFixed

\* usb_unlink_urb: a queued URB will complete with -ENOENT
kill_urb_unlink(c) ==
    /\ pc[c] = "kill_unlink"
    /\ urbc' = [urbc EXCEPT !.unlinked = urbc.queued]
    /\ Jump(c, "kill_wait")
    /\ UNCHANGED <<priv, termios, initialized, urb, lock, loc>>
    /\ ConcFixed

\* usb_kill_urb that does not wait for the completion handler
kill_urb_no_wait(c) ==
    /\ pc[c] = "kill_wait"
    /\ urbc' = [urbc EXCEPT !.reject = urbc.reject - 1]
    /\ urb' = "idle"
    /\ Return(c, loc[c].r)
    /\ UNCHANGED <<priv, termios, initialized, lock>>
    /\ ConcFixed

\* wait_event(use_count == 0): the URB is not queued and its completion
\* handler is not running; then atomic_dec(&urb->reject)
kill_urb_wait(c) ==
    /\ pc[c] = "kill_wait"
    /\ ~urbc.queued
    /\ pc["irq"] = "idle"
    /\ urbc' = [urbc EXCEPT !.reject = urbc.reject - 1]
    /\ urb' = "idle"
    /\ Return(c, loc[c].r)
    /\ UNCHANGED <<priv, termios, initialized, lock>>
    /\ ConcFixed

(* ch340_set_termios(tty, port, old_termios) *)
\* tty_set_termios: stores the new settings and calls the driver with the old
set_termios_call(c, new) ==
    /\ pc[c] = "idle"
    /\ initialized
    /\ termios' = new
    /\ Begin(c, "st_check", <<"idle">>,
             [NoLocal EXCEPT !.t = new, !.hasOld = TRUE, !.old = termios])
    /\ UNCHANGED <<priv, initialized, urb, lock, urbc>>
    /\ ConcFixed

\* lines 411-444
set_termios_check(c) ==
    /\ pc[c] = "st_check"
    /\ IF loc[c].hasOld /\ ~tty_termios_hw_change(loc[c].t, loc[c].old)
       THEN Return(c, 0)
       ELSE /\ Jump(c, IF loc[c].t.baud # 0 THEN "st_baud" ELSE "st_lock")
            /\ UNCHANGED loc
    /\ UNCHANGED <<priv, termios, initialized, urb, lock, urbc>>
    /\ ConcFixed

\* lines 445-447: writes priv->baud_rate
set_termios_baud(c) ==
    /\ pc[c] = "st_baud"
    /\ priv' = [priv EXCEPT !.baud_rate = loc[c].t.baud]
    /\ Enter(c, "bl_plan", "st_after", [loc[c] EXCEPT !.v = LcrOf(loc[c].t)])
    /\ UNCHANGED <<termios, initialized, urb, lock, urbc>>
    /\ ConcFixed

\* lines 448-453: writes priv->baud_rate or priv->lcr
set_termios_after(c) ==
    /\ pc[c] = "st_after"
    /\ IF loc[c].r < 0 /\ loc[c].hasOld
       THEN /\ priv' = [priv EXCEPT !.baud_rate = loc[c].old.baud]
            /\ termios' = loc[c].old
            /\ loc' = [loc EXCEPT ![c].t = loc[c].old]
       ELSE /\ priv' = IF loc[c].r = 0
                       THEN [priv EXCEPT !.lcr = LcrOf(loc[c].t)]
                       ELSE priv
            /\ UNCHANGED <<termios, loc>>
    /\ Jump(c, "st_lock")
    /\ UNCHANGED <<initialized, urb, lock, urbc>>
    /\ ConcFixed

\* line 456
set_termios_lock(c) ==
    /\ pc[c] = "st_lock"
    /\ Acquire(c)
    /\ Jump(c, "st_mcr")
    /\ UNCHANGED <<priv, termios, initialized, urb, loc, urbc>>
    /\ ConcFixed

\* lines 457-460
set_termios_mcr(c) ==
    /\ pc[c] = "st_mcr"
    /\ priv' = [priv EXCEPT !.mcr = TermiosMcr(priv.mcr, loc[c].t, loc[c].hasOld,
                                              loc[c].old)]
    /\ Jump(c, "st_unlock")
    /\ UNCHANGED <<termios, initialized, urb, lock, loc, urbc>>
    /\ ConcFixed

\* line 461
set_termios_unlock(c) ==
    /\ pc[c] = "st_unlock"
    /\ Release(c)
    /\ Jump(c, "st_handshake")
    /\ UNCHANGED <<priv, termios, initialized, urb, loc, urbc>>
    /\ ConcFixed

\* line 463: reads priv->mcr
set_termios_handshake(c) ==
    /\ pc[c] = "st_handshake"
    /\ Jump(c, "hs")
    /\ loc' = [loc EXCEPT ![c].v = priv.mcr]
    /\ UNCHANGED <<priv, termios, initialized, urb, lock, urbc>>
    /\ ConcFixed

(* ch340_tiocmset(tty, set, clear) *)
\* line 517
tiocmset_lock(c) ==
    /\ pc[c] = "idle"
    /\ initialized
    /\ Acquire(c)
    /\ Begin(c, "ts_mcr", <<"idle">>, NoLocal)
    /\ UNCHANGED <<priv, termios, initialized, urb, urbc>>
    /\ ConcFixed

\* lines 518-526
tiocmset_mcr(c, set, clear) ==
    /\ pc[c] = "ts_mcr"
    /\ \E control \in {TiocmMcr(priv.mcr, set, clear)} :
         /\ priv' = [priv EXCEPT !.mcr = control]
         /\ loc' = [loc EXCEPT ![c].v = control]
    /\ Jump(c, "ts_unlock")
    /\ UNCHANGED <<termios, initialized, urb, lock, urbc>>
    /\ ConcFixed

\* ch340_tiocmset that keeps the lock over ch340_set_handshake
tiocmset_no_unlock(c) ==
    /\ pc[c] = "ts_unlock"
    /\ Jump(c, "hs")
    /\ UNCHANGED <<priv, termios, initialized, urb, lock, loc, urbc>>
    /\ ConcFixed

\* lines 527-529
tiocmset_unlock(c) ==
    /\ pc[c] = "ts_unlock"
    /\ Release(c)
    /\ Jump(c, "hs")
    /\ UNCHANGED <<priv, termios, initialized, urb, loc, urbc>>
    /\ ConcFixed

(* ch340_tiocmget(tty) *)
\* line 619
tiocmget_lock(c) ==
    /\ pc[c] = "idle"
    /\ initialized
    /\ Acquire(c)
    /\ Begin(c, "tg_read", <<"idle">>, NoLocal)
    /\ UNCHANGED <<priv, termios, initialized, urb, urbc>>
    /\ ConcFixed

\* lines 620-621
tiocmget_read(c) ==
    /\ pc[c] = "tg_read"
    /\ loc' = [loc EXCEPT ![c].v = BitOr(priv.mcr, priv.msr)]
    /\ Jump(c, "tg_unlock")
    /\ UNCHANGED <<priv, termios, initialized, urb, lock, urbc>>
    /\ ConcFixed

\* lines 622-633
tiocmget_unlock(c) ==
    /\ pc[c] = "tg_unlock"
    /\ Release(c)
    /\ Return(c, loc[c].v)
    /\ UNCHANGED <<priv, termios, initialized, urb, urbc>>
    /\ ConcFixed

(* ch340_carrier_raised(port) *)
\* lines 333-335
carrier_raised_enter(c) ==
    /\ pc[c] = "idle"
    /\ initialized
    /\ Begin(c, "cr_msr", <<"idle">>, NoLocal)
    /\ UNCHANGED <<priv, termios, initialized, urb, lock, urbc>>
    /\ ConcFixed

\* lines 336-338: reads priv->msr
carrier_raised_msr(c) ==
    /\ pc[c] = "cr_msr"
    /\ Return(c, IF BitAnd(priv.msr, CH340_BIT_DCD) # 0 THEN 1 ELSE 0)
    /\ UNCHANGED <<priv, termios, initialized, urb, lock, urbc>>
    /\ ConcFixed

(* ch340_dtr_rts(port, on) *)
\* line 347
dtr_rts_lock(c) ==
    /\ pc[c] = "idle"
    /\ Acquire(c)
    /\ Begin(c, "dr_mcr", <<"idle">>, NoLocal)
    /\ UNCHANGED <<priv, termios, initialized, urb, urbc>>
    /\ ConcFixed

\* lines 348-351
dtr_rts_mcr(c, on) ==
    /\ pc[c] = "dr_mcr"
    /\ priv' = [priv EXCEPT !.mcr = IF on THEN BitOr(priv.mcr, RTS_DTR)
                                    ELSE Clear8(priv.mcr, RTS_DTR)]
    /\ Jump(c, "dr_unlock")
    /\ UNCHANGED <<termios, initialized, urb, lock, loc, urbc>>
    /\ ConcFixed

\* line 352
dtr_rts_unlock(c) ==
    /\ pc[c] = "dr_unlock"
    /\ Release(c)
    /\ Jump(c, "dr_handshake")
    /\ UNCHANGED <<priv, termios, initialized, urb, loc, urbc>>
    /\ ConcFixed

\* line 353: reads priv->mcr
dtr_rts_handshake(c) ==
    /\ pc[c] = "dr_handshake"
    /\ Jump(c, "hs")
    /\ loc' = [loc EXCEPT ![c].v = priv.mcr]
    /\ UNCHANGED <<priv, termios, initialized, urb, lock, urbc>>
    /\ ConcFixed

(* ch340_open(tty, port) *)
\* lines 364-372: with a tty the line settings are applied first
open_enter(c, hasTty) ==
    /\ pc[c] = "idle"
    /\ ~initialized
    /\ IF hasTty
       THEN Begin(c, "st_check", <<"op_submit", "idle">>,
                  [NoLocal EXCEPT !.t = termios])
       ELSE Begin(c, "op_submit", <<"idle">>, NoLocal)
    /\ UNCHANGED <<priv, termios, initialized, urb, lock, urbc>>
    /\ ConcFixed

\* lines 373-380
open_submit(c, ok) ==
    /\ pc[c] = "op_submit"
    /\ \E s \in {Submit(ok)} :
         /\ urbc' = s.urbc
         /\ IF s.r # 0
            THEN Return(c, s.r) /\ UNCHANGED urb
            ELSE /\ urb' = "submitted"
                 /\ Begin(c, "gs_in", <<"op_generic", "idle">>, NoLocal)
    /\ UNCHANGED <<priv, termios, initialized, lock>>
    /\ ConcFixed

\* lines 381-390: the status read failed, or usb_serial_generic_open runs
open_generic(c, ok) ==
    /\ pc[c] = "op_generic"
    /\ IF loc[c].r < 0 \/ ~ok
       THEN /\ Jump(c, "kill_reject")
            /\ loc' = [loc EXCEPT ![c].r = IF loc[c].r < 0 THEN loc[c].r ELSE XferErr]
            /\ UNCHANGED initialized
       ELSE /\ initialized' = TRUE
            /\ Return(c, 0)
    /\ UNCHANGED <<priv, termios, urb, lock, urbc>>
    /\ ConcFixed

(* ch340_close(port) *)
\* line 358; usb_kill_urb follows
close_generic(c) ==
    /\ pc[c] = "idle"
    /\ initialized
    /\ initialized' = FALSE
    /\ Begin(c, "kill_reject", <<"idle">>, NoLocal)
    /\ UNCHANGED <<priv, termios, urb, lock, urbc>>
    /\ ConcFixed

(* ch340_reset_resume(serial) *)
\* the suspend that precedes it: the USB serial core stops the port's URBs
suspend(c) ==
    /\ pc[c] = "idle"
    /\ Begin(c, "kill_reject", <<"rr_configure", "idle">>, NoLocal)
    /\ UNCHANGED <<priv, termios, initialized, urb, lock, urbc>>
    /\ ConcFixed

\* line 643
reset_resume_configure(c) ==
    /\ pc[c] = "rr_configure"
    /\ Enter(c, "cf_version", "rr_submit", loc[c])
    /\ UNCHANGED <<priv, termios, initialized, urb, lock, urbc>>
    /\ ConcFixed

\* lines 645-653; the result of ch340_configure is not read
reset_resume_submit(c, ok) ==
    /\ pc[c] = "rr_submit"
    /\ IF ~initialized
       THEN Jump(c, "rr_resume") /\ UNCHANGED <<loc, urb, urbc>>
       ELSE \E s \in {Submit(ok)} :
              /\ urbc' = s.urbc
              /\ IF s.r # 0
                 THEN Return(c, s.r) /\ UNCHANGED urb
                 ELSE /\ urb' = "submitted"
                      /\ Enter(c, "gs_in", "rr_resume", loc[c])
    /\ UNCHANGED <<priv, termios, initialized, lock>>
    /\ ConcFixed

\* lines 654-660
reset_resume_resume(c) ==
    /\ pc[c] = "rr_resume"
    /\ Return(c, 0)
    /\ UNCHANGED <<priv, termios, initialized, urb, lock, urbc>>
    /\ ConcFixed

(* ch340_read_int_callback(urb) with ch340_update_status *)
\* the host controller gives the URB back: with -ENOENT when it was unlinked
\* in time, with 0 or an error otherwise
urb_complete(status) ==
    /\ pc["irq"] = "idle"
    /\ urbc.queued
    /\ status = 0 - ENOENT => urbc.unlinked
    /\ urbc' = [urbc EXCEPT !.queued = FALSE, !.unlinked = FALSE]
    /\ pc' = [pc EXCEPT !["irq"] = "cb_switch"]
    /\ loc' = [loc EXCEPT !["irq"] = [NoLocal EXCEPT !.stk = <<"idle">>, !.r = status]]
    /\ UNCHANGED <<priv, termios, initialized, urb, lock>>
    /\ ConcFixed

\* lines 583-601 and 541-544
read_int_callback_switch(c, sb, len) ==
    /\ pc[c] = "cb_switch"
    /\ IF loc[c].r \in Teardown
       THEN Return(c, loc[c].r)
       ELSE /\ Jump(c, IF loc[c].r = 0 /\ len >= 4 THEN "us_lock" ELSE "cb_submit")
            /\ loc' = [loc EXCEPT ![c].v = IF loc[c].r = 0 /\ len >= 4
                                           THEN BitAnd(Not8(sb), CH340_BITS_MODEM_STAT)
                                           ELSE 0]
    /\ UNCHANGED <<priv, termios, initialized, urb, lock, urbc>>
    /\ ConcFixed

\* line 546
update_status_lock(c) ==
    /\ pc[c] = "us_lock"
    /\ Acquire(c)
    /\ Jump(c, "us_msr")
    /\ UNCHANGED <<priv, termios, initialized, urb, loc, urbc>>
    /\ ConcFixed

\* lines 547-548
update_status_msr(c) ==
    /\ pc[c] = "us_msr"
    /\ priv' = [priv EXCEPT !.msr = loc[c].v]
    /\ Jump(c, "us_unlock")
    /\ loc' = [loc EXCEPT ![c].v = 0]
    /\ UNCHANGED <<termios, initialized, urb, lock, urbc>>
    /\ ConcFixed

\* lines 549-574
update_status_unlock(c) ==
    /\ pc[c] = "us_unlock"
    /\ Release(c)
    /\ Jump(c, "cb_submit")
    /\ UNCHANGED <<priv, termios, initialized, urb, loc, urbc>>
    /\ ConcFixed

\* lines 603-607
read_int_callback_submit(c, ok) ==
    /\ pc[c] = "cb_submit"
    /\ \E s \in {Submit(ok)} :
         /\ urbc' = s.urbc
         /\ Return(c, s.r)
    /\ UNCHANGED <<priv, termios, initialized, urb, lock>>
    /\ ConcFixed

\* what a call into the core or a control read may return
Outcomes == {0, XferErr}

NextConc ==
    \/ \E c \in {"usr", "ctl"}, ok \in BOOLEAN : set_handshake_done(c, ok)
    \/ \E c \in {"usr", "ctl"} : set_baudrate_lcr_plan(c)
    \/ \E c \in {"usr", "ctl"}, ok \in BOOLEAN : set_baudrate_lcr_divisor(c, ok)
    \/ \E c \in {"usr", "ctl"}, ok \in BOOLEAN : set_baudrate_lcr_lcr(c, ok)
    \/ \E r \in Outcomes \cup {0 - ENOMEM, 0 - EIO}, sb \in StatusBytes :
          get_status_in("ctl", r, sb)
    \/ get_status_lock("ctl")
    \/ get_status_msr("ctl")
    \/ get_status_unlock("ctl")
    \/ \E r \in Outcomes : configure_version("ctl", r)
    \/ \E ok \in BOOLEAN : configure_init("ctl", ok)
    \/ configure_lcr("ctl")
    \/ configure_mcr("ctl")
    \/ kill_urb_reject("ctl")
    \/ kill_urb_unlink("ctl")
    \/ kill_urb_wait("ctl")
    \/ \E new \in ConcTermios : set_termios_call("usr", new)
    \/ \E c \in {"usr", "ctl"} : set_termios_check(c)
    \/ \E c \in {"usr", "ctl"} : set_termios_baud(c)
    \/ \E c \in {"usr", "ctl"} : set_termios_after(c)
    \/ \E c \in {"usr", "ctl"} : set_termios_lock(c)
    \/ \E c \in {"usr", "ctl"} : set_termios_mcr(c)
    \/ \E c \in {"usr", "ctl"} : set_termios_unlock(c)
    \/ \E c \in {"usr", "ctl"} : set_termios_handshake(c)
    \/ tiocmset_lock("usr")
    \/ \E a \in ConcLines : tiocmset_mcr("usr", a[1], a[2])
    \/ tiocmset_unlock("usr")
    \/ tiocmget_lock("usr")
    \/ tiocmget_read("usr")
    \/ tiocmget_unlock("usr")
    \/ carrier_raised_enter("usr")
    \/ carrier_raised_msr("usr")
    \/ dtr_rts_lock("ctl")
    \/ \E on \in BOOLEAN : dtr_rts_mcr("ctl", on)
    \/ dtr_rts_unlock("ctl")
    \/ dtr_rts_handshake("ctl")
    \/ \E hasTty \in BOOLEAN : open_enter("ctl", hasTty)
    \/ \E ok \in BOOLEAN : open_submit("ctl", ok)
    \/ \E ok \in BOOLEAN : open_generic("ctl", ok)
    \/ close_generic("ctl")
    \/ suspend("ctl")
    \/ reset_resume_configure("ctl")
    \/ \E ok \in BOOLEAN : reset_resume_submit("ctl", ok)
    \/ reset_resume_resume("ctl")
    \/ \E status \in {0, 0 - EIO, 0 - ENOENT} : urb_complete(status)
    \/ \E sb \in StatusBytes, len \in Lengths : read_int_callback_switch("irq", sb, len)
    \/ update_status_lock("irq")
    \/ update_status_msr("irq")
    \/ update_status_unlock("irq")
    \/ \E ok \in BOOLEAN : read_int_callback_submit("irq", ok)

SpecConc == InitConc /\ [][NextConc]_vars

-----------------------------------------------------------------------------
(* The modem-line calls running concurrently on an open port, every        *)
(* transfer succeeding: ch340_tiocmset and ch340_set_termios in a process, *)
(* ch340_dtr_rts in the path that drives DTR/RTS, the device holding the   *)
(* byte of the last handshake transfer that completed.                     *)

InitModem ==
    /\ priv \in {[ZeroPriv EXCEPT
                    !.baud_rate = DEFAULT_BAUD_RATE,
                    !.lcr = BitOr(BitOr(CH340_LCR_ENABLE_RX, CH340_LCR_ENABLE_TX),
                                  CH340_LCR_CS8),
                    !.mcr = m] : m \in {0, RTS_DTR}}
    /\ claimed = TRUE
    /\ termios = StdTermios
    /\ initialized = TRUE
    /\ urb = "submitted"
    /\ icount = ZeroCount
    /\ tty = TRUE
    /\ last = NoCall
    /\ pc = [c \in Ctx |-> "idle"]
    /\ lock = "free"
    /\ loc = [c \in Ctx |-> NoLocal]
    /\ urbc = [queued |-> TRUE, reject |-> 0, unlinked |-> FALSE]
    /\ dev = [DevReset EXCEPT !.hs = Not8(priv.mcr)]

NextModem ==
    \/ \E c \in {"usr", "ctl"} : set_handshake_done(c, TRUE)
    \/ set_baudrate_lcr_plan("usr")
    \/ set_baudrate_lcr_divisor("usr", TRUE)
    \/ set_baudrate_lcr_lcr("usr", TRUE)
    \/ \E new \in ConcTermios : set_termios_call("usr", new)
    \/ set_termios_check("usr")
    \/ set_termios_baud("usr")
    \/ set_termios_after("usr")
    \/ set_termios_lock("usr")
    \/ set_termios_mcr("usr")
    \/ set_termios_unlock("usr")
    \/ set_termios_handshake("usr")
    \/ tiocmset_lock("usr")
    \/ \E a \in ConcLines : tiocmset_mcr("usr", a[1], a[2])
    \/ tiocmset_unlock("usr")
    \/ dtr_rts_lock("ctl")
    \/ \E on \in BOOLEAN : dtr_rts_mcr("ctl", on)
    \/ dtr_rts_unlock("ctl")
    \/ dtr_rts_handshake("ctl")

SpecModem == InitModem /\ [][NextModem]_vars

-----------------------------------------------------------------------------
(* The baud/frame step alone: ch340_set_baudrate_lcr called once for each   *)
(* rate of a set of windows of rates.                                       *)

\* each window holds this many rates above its first
BaudWindow == 120
Window(lo) == lo .. (lo + BaudWindow)

\* the rates: 0; the lowest ones, which no divisor reaches; windows around
\* 300, 9600, 115200, the rates at which the doubled clock's factor falls to
\* 8 and below, 2,000,000, the rates at which the factor becomes 1, and
\* 12,000,000, above which the base-clock factor is 0; and the largest rate
\* the checker's integers hold
BaudInputs ==
    {0, 2147483647}
    \cup UNION {Window(lo) : lo \in {1, 300, 9540, 114200, 115150, 1411700,
                                     1714200, 1999900, 3999950, 5999950,
                                     11999950}}

\* a division by zero in the kernel: the task is killed in the trap, or the
\* division routine returns some value
DivZero == {"trap", "value"}

InitBaud ==
    /\ priv \in {[ZeroPriv EXCEPT
                    !.baud_rate = b,
                    !.lcr = BitOr(BitOr(CH340_LCR_ENABLE_RX, CH340_LCR_ENABLE_TX),
                                  CH340_LCR_CS8)] : b \in BaudInputs}
    /\ claimed = TRUE
    /\ termios = StdTermios
    /\ initialized = TRUE
    /\ urb = "submitted"
    /\ icount = ZeroCount
    /\ tty = TRUE
    /\ last = NoCall
    /\ ConcIdle

\* ch340_set_baudrate_lcr(dev, priv, lcr); a frame write that succeeds
\* reaches the device's LCR
set_baudrate_lcr(lcr, F, dz) ==
    /\ IF priv.baud_rate # 0 /\ dz = "trap" /\ BaudPlan(priv.baud_rate).trap
       THEN /\ last' = Call("set_baudrate_lcr", 0, <<>>, priv, "trap", FALSE, termios,
                            initialized) @@ [lcr |-> lcr]
            /\ UNCHANGED dev
       ELSE \E s \in {ch340_set_baudrate_lcr(priv, lcr, <<>>, F)} :
              /\ last' = Call("set_baudrate_lcr", s.r, s.log, priv, "returned", FALSE,
                              termios, initialized) @@ [lcr |-> lcr]
              /\ dev' = IF Len(s.log) = 2 /\ s.r = 0 THEN [dev EXCEPT !.lcr = lcr]
                        ELSE dev
    /\ UNCHANGED <<priv, claimed, termios, initialized, urb, icount, tty, pc, lock,
                   loc, urbc>>

NextBaud ==
    \E F \in FailSets(2), dz \in DivZero : set_baudrate_lcr(priv.lcr, F, dz)

SpecBaud == InitBaud /\ [][NextBaud]_vars

-----------------------------------------------------------------------------
(* The register writes against a device that keeps its registers:          *)
(* ch340_break_ctl and ch340_set_baudrate_lcr, one call after the other.    *)

\* line 468: the break register in the low byte, the LCR in the high byte
ch340_break_reg == CH340_REG_LCR * U8 + CH340_REG_BREAK

\* break_state as the tty core passes it: 0 to leave, -1 (or any nonzero
\* value) to enter
BreakStates == {0, 1, 0 - 1}

\* what ch340_break_ctl leaves: the device and the calls made
BreakResult(d, log, ok) == [dev |-> d, log |-> log, ok |-> ok]

\* ch340_break_ctl that leaves the break bit alone when the break ends
break_ctl_keeps_break(d, break_state, log, F, k) ==
    Then(CoreCall(log, F, "kmalloc"), LAMBDA m :
         IF m.r # 0 THEN BreakResult(d, m.log, FALSE)
         ELSE
         Then(ch340_control_in(m.log, F, k, CH340_REQ_READ_REG, ch340_break_reg, 0, 2),
              LAMBDA i :
              IF i.r < 0 THEN BreakResult(d, i.log, FALSE)
              ELSE
              Then(IF break_state # 0 THEN Clear8(d.brk, CH340_NBREAK_BITS)
                   ELSE d.brk, LAMBDA b0 :
              Then(IF break_state # 0 THEN Clear8(d.lcr, CH340_LCR_ENABLE_TX)
                   ELSE BitOr(d.lcr, CH340_LCR_ENABLE_TX), LAMBDA b1 :
              Then(ch340_control_out(i.log, F, CH340_REQ_WRITE_REG, ch340_break_reg,
                                     b1 * U8 + b0), LAMBDA w :
                   IF w.r < 0 THEN BreakResult(d, w.log, FALSE)
                   ELSE BreakResult([d EXCEPT !.brk = b0, !.lcr = b1], w.log, TRUE))))))

\* ch340_break_ctl(tty, break_state); d holds the device's registers, which
\* the read at line 479 returns and the write at line 500 replaces
ch340_break_ctl(d, break_state, log, F, k) ==
    Then(CoreCall(log, F, "kmalloc"), LAMBDA m :
         IF m.r # 0 THEN BreakResult(d, m.log, FALSE)
         ELSE
         Then(ch340_control_in(m.log, F, k, CH340_REQ_READ_REG, ch340_break_reg, 0, 2),
              LAMBDA i :
              IF i.r < 0 THEN BreakResult(d, i.log, FALSE)
              ELSE
              Then(IF break_state # 0 THEN Clear8(d.brk, CH340_NBREAK_BITS)
                   ELSE BitOr(d.brk, CH340_NBREAK_BITS), LAMBDA b0 :
              Then(IF break_state # 0 THEN Clear8(d.lcr, CH340_LCR_ENABLE_TX)
                   ELSE BitOr(d.lcr, CH340_LCR_ENABLE_TX), LAMBDA b1 :
              Then(ch340_control_out(i.log, F, CH340_REQ_WRITE_REG, ch340_break_reg,
                                     b1 * U8 + b0), LAMBDA w :
                   IF w.r < 0 THEN BreakResult(d, w.log, FALSE)
                   ELSE BreakResult([d EXCEPT !.brk = b0, !.lcr = b1], w.log, TRUE))))))

\* the call before the one recorded: a break_ctl, its argument, whether
\* both its transfers succeeded, the registers it found
Before ==
    IF last.op = "break_ctl"
    THEN [brk |-> TRUE, state |-> last.state, ok |-> last.ok, pre |-> last.pre]
    ELSE [brk |-> FALSE, state |-> 0, ok |-> FALSE, pre |-> dev]

break_ctl(break_state, F, k) ==
    /\ claimed
    /\ initialized
    /\ \E b \in {ch340_break_ctl(dev, break_state, <<>>, F, k)} :
         /\ dev' = b.dev
         /\ last' = [op |-> "break_ctl", state |-> break_state, log |-> b.log,
                     ok |-> b.ok, pre |-> dev, prev |-> Before]
    /\ UNCHANGED <<priv, claimed, termios, initialized, urb, icount, tty, pc, lock,
                   loc, urbc>>

\* the break register of the chip after reset (no break: bit 0 set) with
\* other bits as they may be, and frames the driver writes
InitRegs ==
    /\ priv \in {[ZeroPriv EXCEPT
                    !.baud_rate = b,
                    !.lcr = BitOr(BitOr(CH340_LCR_ENABLE_RX, CH340_LCR_ENABLE_TX),
                                  CH340_LCR_CS8)] : b \in {DEFAULT_BAUD_RATE, 115200}}
    /\ claimed = TRUE
    /\ termios = StdTermios
    /\ initialized = TRUE
    /\ urb = "submitted"
    /\ icount = ZeroCount
    /\ tty = TRUE
    /\ last = NoCall
    /\ pc = <<>>
    /\ lock = "free"
    /\ loc = <<>>
    /\ urbc = [queued |-> FALSE, reject |-> 0, unlinked |-> FALSE]
    /\ dev \in {[DevReset EXCEPT !.brk = b, !.lcr = l] :
                  b \in {1, 255, 171}, l \in {LcrOf(t) : t \in TermiosSet}}

NextRegs ==
    \/ \E s \in BreakStates, F \in FailSets(3), k \in FailKinds : break_ctl(s, F, k)
    \/ \E t \in TermiosSet, F \in FailSets(2), dz \in DivZero :
          set_baudrate_lcr(LcrOf(t), F, dz)

SpecRegs == InitRegs /\ [][NextRegs]_vars

-----------------------------------------------------------------------------
(* Reading the record of the last call *)

Indices(log, kind) == {i \in DOMAIN log : log[i].kind = kind}
Issued(log, request) ==
    {i \in DOMAIN log : log[i].kind \in {"in", "out"} /\ log[i].request = request}
SubmitFailed(log) == \E i \in Indices(log, "submit") : log[i].r # 0
SubmitDone(log) == \E i \in Indices(log, "submit") : log[i].r = 0
StatusQueries(log) ==
    {i \in Issued(log, CH340_REQ_READ_REG) : log[i].value = REG_STATUS}
EndsWith(log, kind) == Len(log) > 0 /\ log[Len(log)].kind = kind

\* the control transfers of ch340_configure in a port_probe or reset_resume
\* call: those issued before the call goes on to the URB or the generic resume
ConfigureEnd(log) ==
    LET later == Indices(log, "submit") \cup Indices(log, "generic_resume")
    IN  IF later = {} THEN Len(log) + 1
        ELSE CHOOSE i \in later : \A j \in later : i <= j
ConfigureReqs(log) ==
    SelectSeq(SubSeq(log, 1, ConfigureEnd(log) - 1),
              LAMBDA e : e.kind \in {"in", "out"})

ResumeOfOpenPort == last.op = "reset_resume" /\ last.wasOpen

-----------------------------------------------------------------------------
(* C1 *)

\* C1 as stated: in a resume of an open port, a failure to resubmit the
\* interrupt URB does not stop the resume, which still ends with the generic
\* resume.
C1_ResubmitFailureDoesNotBlock ==
    (ResumeOfOpenPort /\ SubmitFailed(last.log))
        => EndsWith(last.log, "generic_resume")

\* C1, amended: in a resume of an open port, a failure to resubmit the
\* interrupt URB ends the resume at once with that error: no status query
\* and no generic resume follow.  If the resubmission succeeds, the status
\* query is issued and, whether or not it fails, the resume ends with the
\* generic resume and returns its result.
C1_ResubmitFailureAborts ==
    ResumeOfOpenPort =>
        /\ SubmitFailed(last.log) =>
              /\ EndsWith(last.log, "submit")
              /\ last.ret = last.log[Len(last.log)].r
              /\ last.ret < 0
              /\ StatusQueries(last.log) = {}
              /\ Indices(last.log, "generic_resume") = {}
              /\ urb = "idle"
        /\ SubmitDone(last.log) =>
              /\ EndsWith(last.log, "generic_resume")
              /\ last.ret = last.log[Len(last.log)].r
              /\ urb = "submitted"

C1_Witness ==
    /\ ResumeOfOpenPort
    /\ SubmitFailed(last.log)
    /\ last.ret < 0

-----------------------------------------------------------------------------
(* C2 *)

ProbeOrInitFailed(log) ==
    \E i \in Issued(log, CH340_REQ_READ_VERSION) \cup Issued(log, CH340_REQ_SERIAL_INIT) :
        log[i].r < 0

\* C2 as stated: in port_probe and in reset_resume, once the version read or
\* the serial-init request has failed, the call submits no interrupt URB and
\* issues no status query, and a probed port is not claimed.
C2_ProbeInitFailureIsFatal ==
    (last.op \in {"port_probe", "reset_resume"} /\ ProbeOrInitFailed(last.log))
        => /\ Indices(last.log, "submit") = {}
           /\ StatusQueries(last.log) = {}
           /\ last.op = "port_probe" => (~claimed /\ last.ret < 0)

-----------------------------------------------------------------------------
(* C3 *)

\* the requests of ch340_configure, in the order of the code
ConfigureOrder ==
    << [kind |-> "in", request |-> CH340_REQ_READ_VERSION, value |-> 0],
       [kind |-> "out", request |-> CH340_REQ_SERIAL_INIT, value |-> 0],
       [kind |-> "out", request |-> CH340_REQ_WRITE_REG, value |-> REG_BAUD],
       [kind |-> "out", request |-> CH340_REQ_WRITE_REG, value |-> REG_LCR2],
       [kind |-> "out", request |-> CH340_REQ_MODEM_CTRL, value |-> 0] >>

Matches(e, o) ==
    /\ e.kind = o.kind
    /\ e.request = o.request
    /\ o.request = CH340_REQ_WRITE_REG => e.value = o.value

\* C3: the control transfers ch340_configure issues are an initial part of
\* version read, serial init, baud write, frame write, handshake; every one
\* but the last issued has succeeded; a short version read is the error -EIO
\* and nothing follows it.
C3_ConfigureOrder ==
    last.op \in {"port_probe", "reset_resume"} =>
        LET reqs == ConfigureReqs(last.log)
        IN  /\ Len(reqs) <= Len(ConfigureOrder)
            /\ \A i \in DOMAIN reqs : Matches(reqs[i], ConfigureOrder[i])
            /\ \A i \in DOMAIN reqs : i < Len(reqs) => reqs[i].r = 0
            /\ \A i \in DOMAIN reqs : reqs[i].r \in {0, XferErr, 0 - EIO}
            /\ (last.op = "port_probe" /\ Len(reqs) > 0 /\ reqs[Len(reqs)].r < 0)
                  => (last.ret = reqs[Len(reqs)].r /\ ~claimed)

C3_Witness ==
    /\ last.op = "port_probe"
    /\ Len(ConfigureReqs(last.log)) = 1
    /\ ConfigureReqs(last.log)[1].r = 0 - EIO
    /\ last.ret = 0 - EIO

-----------------------------------------------------------------------------
(* C4 *)

\* C4 as stated: whenever the baud/frame step of ch340_set_termios fails, in
\* a line-settings change or in the call made by ch340_open, baud_rate is
\* afterwards the value it had before the call, and it is not 0.
C4_BaudRolledBack ==
    (last.op \in {"set_termios", "open"} /\ last.step = "failed")
        => /\ priv.baud_rate = last.pre.baud_rate
           /\ priv.baud_rate # 0

-----------------------------------------------------------------------------
(* Concurrent contexts: where a context stands *)

\* labels at which a control transfer is in progress
XferLabels == {"hs", "bl_divisor", "bl_lcr", "gs_in", "cf_version", "cf_init"}
\* labels at which usb_submit_urb or usb_kill_urb is in progress
UrbLabels == {"op_submit", "rr_submit", "cb_submit",
              "kill_reject", "kill_unlink", "kill_wait"}

\* the statement context c executes next reads or writes a LineState field
Accesses(c) ==
    \/ pc[c] \in {"bl_plan", "gs_msr", "cf_lcr", "st_baud", "st_mcr",
                  "st_handshake", "ts_mcr", "tg_read", "cr_msr", "dr_mcr",
                  "dr_handshake", "us_msr"}
    \/ pc[c] = "cf_mcr" /\ loc[c].r >= 0
    \/ pc[c] = "st_after" /\ (loc[c].r = 0 \/ (loc[c].r < 0 /\ loc[c].hasOld))

-----------------------------------------------------------------------------
(* The status monitor: reading a delivery *)

Delivered == last.op = "read_int_callback"
\* the step just taken delivered a notification that ch340_update_status took
Processed == last'.op = "read_int_callback" /\ last'.status = 0 /\ last'.len >= 4
StatusOf(b2) == BitAnd(Not8(b2), CH340_BITS_MODEM_STAT)
Differs(bit) == BitAnd(BitXor(priv'.msr, priv.msr), bit) # 0
Counted(was, bit) == IF Differs(bit) THEN was + 1 ELSE was

\* C6 (state part): a delivery whose status is a teardown status is followed
\* by no resubmission and leaves the URB idle; every other delivery (valid,
\* short or with another error status) is followed by exactly one
\* usb_submit_urb, and the URB is outstanding exactly when that call succeeded.
C6_State ==
    Delivered =>
        IF last.status \in Teardown
        THEN last.log = <<>> /\ urb = "idle"
        ELSE /\ Len(last.log) = 1
             /\ last.log[1].kind = "submit"
             /\ urb = "submitted" <=> last.log[1].r = 0

\* C6 (step part): a delivery whose resubmission fails leaves LineState as the
\* processing of the notification alone leaves it: msr set from a valid
\* notification, nothing changed otherwise.
C6_Step ==
    (last'.op = "read_int_callback" /\ last'.log # <<>> /\ last'.log[1].r # 0) =>
        priv' = [priv EXCEPT !.msr = IF Processed THEN StatusOf(last'.data[3])
                                     ELSE priv.msr]

\* C6: every delivery to ch340_read_int_callback is followed by exactly one
\* resubmission unless its status is -ECONNRESET, -ENOENT or -ESHUTDOWN, and a
\* failed resubmission does not change LineState.
C6_RearmOnce == [](C6_State) /\ [][C6_Step]_vars

\* a delivery with an error status that is no teardown, resubmitted, the
\* resubmission failing
C6_Witness ==
    /\ Delivered
    /\ last.status = 0 - EIO
    /\ Len(last.log) = 1
    /\ last.log[1].r # 0
    /\ urb = "idle"

\* C7 (step part): a notification of at least 4 bytes sets msr to the masked
\* complement of its third byte and adds one to exactly the counters whose bit
\* differs between the new and the old msr; any other delivery leaves
\* LineState and the counters alone.
C7_Step ==
    last'.op = "read_int_callback" =>
        IF Processed
        THEN /\ priv' = [priv EXCEPT !.msr = StatusOf(last'.data[3])]
             /\ icount' = [cts |-> Counted(icount.cts, CH340_BIT_CTS),
                           dsr |-> Counted(icount.dsr, CH340_BIT_DSR),
                           rng |-> Counted(icount.rng, CH340_BIT_RI),
                           dcd |-> Counted(icount.dcd, CH340_BIT_DCD)]
        ELSE priv' = priv /\ icount' = icount

\* C7: after every delivery msr is the masked complement of the third byte of
\* the latest notification of at least 4 bytes; shorter ones change nothing;
\* counters never decrease and are incremented, by one, exactly for the bits
\* that changed.
C7_StatusDeltaLaw ==
    /\ [](LastValid >= 0 => priv.msr = StatusOf(LastValid))
    /\ [][C7_Step]_vars

\* a short notification delivered after valid ones that moved ring and carrier
C7_Witness ==
    /\ Delivered
    /\ last.status = 0
    /\ last.len < 4
    /\ LastValid >= 0
    /\ last.data[3] # LastValid
    /\ icount.rng >= 1
    /\ icount.dcd >= 2

\* C8 as stated: every notification that changes the DCD bit raises the
\* carrier-detect-change event exactly once with the new DCD value, and a
\* notification with delta 0 raises no event and changes no counter.
C8_DcdEventAlways ==
    [][Processed =>
         /\ Differs(CH340_BIT_DCD) =>
                last'.dcd = <<BitAnd(priv'.msr, CH340_BIT_DCD)>>
         /\ priv'.msr = priv.msr => last'.dcd = <<>> /\ icount' = icount]_vars

\* C8 (amended): a notification that changes the DCD bit raises the
\* carrier-detect-change event exactly once with the new DCD value when a tty
\* is attached to the port and raises none when no tty is attached; a
\* notification that leaves the DCD bit alone raises none, and one with delta
\* 0 changes no counter either.
C8_DcdEventWithTty ==
    [][Processed =>
         /\ last'.dcd = IF Differs(CH340_BIT_DCD) /\ tty
                        THEN <<BitAnd(priv'.msr, CH340_BIT_DCD)>>
                        ELSE <<>>
         /\ priv'.msr = priv.msr => icount' = icount]_vars

\* the notification 08 00 F7 EE on a port with a tty: carrier raised, counted
\* once, the event raised with the DCD bit set
C8_Witness ==
    /\ Delivered
    /\ tty
    /\ last.status = 0
    /\ last.len = 4
    /\ last.data = <<8, 0, 247, 238>>
    /\ last.dcd = <<CH340_BIT_DCD>>
    /\ icount.dcd = 1

(* C9 *)
\* C9 as stated: every read and every write of a LineState field (baud_rate,
\* lcr, mcr, msr) by any handler is made while the context holds priv->lock.
C9_AllAccessLocked ==
    \A c \in Ctx : Accesses(c) => lock = c

(* C10 *)
\* C10: no context holds priv->lock while a control transfer, a URB submit or
\* a URB kill of its own is in progress, and the completion handler
\* (ch340_read_int_callback with ch340_update_status) never has a control
\* transfer in progress.
C10_NoLockAcrossIO ==
    /\ \A c \in Ctx : pc[c] \in XferLabels \cup UrbLabels => lock # c
    /\ pc["irq"] \notin XferLabels

\* a handshake transfer of a tty call and the status read of ch340_open in
\* progress while the completion handler holds the lock
C10_Witness ==
    /\ pc["usr"] = "hs"
    /\ pc["ctl"] = "gs_in"
    /\ pc["irq"] = "us_msr"
    /\ lock = "irq"

-----------------------------------------------------------------------------
(* The baud/frame step: reading what was written *)

Synthesized == last.op = "set_baudrate_lcr" /\ last.step = "returned"
Asked == last.pre.baud_rate
\* the call wrote the baud register: the payload is the first transfer's index
WroteBaud == Synthesized /\ last.log # <<>>
PayloadFactor == last.log[1].index \div 256
PayloadDivisor == last.log[1].index % 4
PayloadX2 == (last.log[1].index \div 4) % 2
\* the rate the chip produces from a payload
Achieved(bytefactor, divisor, x2) ==
    DIV_ROUND_CLOSEST(CH340_BAUDBASE_FACTOR * (1 + x2),
                      (256 - bytefactor) * 8 ^ (CH340_BAUDBASE_DIVMAX - divisor))
Deviation(rate, b) == IF rate > b THEN rate - b ELSE b - rate
Single(b) == Candidate(CH340_BAUDBASE_FACTOR, b)
Double(b) == Candidate(CH340_BAUDBASE_FACTOR * 2, b)
Least(x, y) == IF x < y THEN x ELSE y

(* C11 *)
\* C11 as stated: for every rate in 300..2,000,000 the call either fails with
\* -EINVAL or writes the payload whose deviation from the rate is the least
\* of the deviations of the base-clock and the doubled-clock candidate.
C11_LeastOfBoth ==
    (Synthesized /\ Asked >= 300 /\ Asked <= 2000000) =>
        \/ last.ret = 0 - EINVAL /\ last.log = <<>>
        \/ /\ WroteBaud
           /\ Deviation(Achieved(PayloadFactor, PayloadDivisor, PayloadX2), Asked)
                = Least(Single(Asked).diff, Double(Asked).diff)

\* C11 (amended): for every rate in 300..2,000,000 the call either fails with
\* -EINVAL or writes the payload whose deviation is the least of the
\* deviation of the base-clock candidate and, only when the doubled-clock
\* factor is above 8, that of the doubled-clock candidate; a doubled-clock
\* candidate with a factor of 8 or less is never taken, however close.
C11_LeastOfEligible ==
    (Synthesized /\ Asked >= 300 /\ Asked <= 2000000) =>
        \/ last.ret = 0 - EINVAL /\ last.log = <<>>
        \/ /\ WroteBaud
           /\ Deviation(Achieved(PayloadFactor, PayloadDivisor, PayloadX2), Asked)
                = IF Double(Asked).factor > 8
                  THEN Least(Single(Asked).diff, Double(Asked).diff)
                  ELSE Single(Asked).diff
           /\ Double(Asked).factor <= 8 => PayloadX2 = 0

\* 114286 baud: the doubled clock hits the rate (factor 105), the base clock
\* misses it by 1099, and the doubled clock is written
C11_Witness ==
    /\ WroteBaud
    /\ Asked = 114286
    /\ PayloadX2 = 1
    /\ PayloadFactor = 256 - 105
    /\ Single(Asked).diff = 1099
    /\ Double(Asked).diff = 0

(* C12 *)
\* C12: whenever the base-clock and the doubled-clock candidate of a rate have
\* the same deviation and the call writes the baud register, the payload is
\* the base-clock candidate's: bit 2 of its low byte is 0 and its factor and
\* divisor fields are those of the base-clock candidate.  9600 is such a rate.
C12_TieTakesSingle ==
    (WroteBaud /\ Single(Asked).diff = Double(Asked).diff) =>
        /\ PayloadX2 = 0
        /\ PayloadFactor = 256 - Single(Asked).factor
        /\ PayloadDivisor = Single(Asked).divisor
        /\ BitAnd(last.log[1].index % 256, 4) = 0

\* 9600 baud: both candidates miss by 15, and 0xB282 is written
C12_Witness ==
    /\ WroteBaud
    /\ Asked = DEFAULT_BAUD_RATE
    /\ Single(Asked).diff = 15
    /\ Double(Asked).diff = 15
    /\ Double(Asked).factor > 8
    /\ last.log[1].index = 45698

(* C13 *)
\* what lines 178-213 leave in factor for a rate: 256 minus the factor of the
\* candidate taken, which as an unsigned int is above 0xfe when below 0
ByteFactor(b) == 256 - Choose(Single(b), Double(b)).factor

\* C13 as stated: for every rate the call returns, either with -EINVAL and no
\* register write, exactly when the rate is 0 or the byte factor is above 254,
\* or else having written a payload with byte factor 256 - chosen factor in
\* 1..254 and divisor in 0..3.
C13_TwoOutcomes ==
    last.op = "set_baudrate_lcr" =>
        /\ last.step = "returned"
        /\ IF Asked = 0 \/ ByteFactor(Asked) < 0 \/ ByteFactor(Asked) > 254
           THEN last.ret = 0 - EINVAL /\ last.log = <<>>
           ELSE /\ last.log # <<>>
                /\ PayloadFactor = ByteFactor(Asked)
                /\ PayloadFactor \in 1 .. 254
                /\ PayloadDivisor \in 0 .. CH340_BAUDBASE_DIVMAX

(* C17 *)
\* C17: a call whose synthesis succeeds writes selector 0x1312 first; it
\* writes selector 0x2518 second and only after the first write succeeded; it
\* returns the result of the last write it issued and issues at most two.
C17_WriteOrder ==
    Synthesized =>
        /\ Len(last.log) <= 2
        /\ (Asked # 0 /\ ByteFactor(Asked) \in 1 .. 254) <=> last.log # <<>>
        /\ last.log # <<>> =>
             /\ last.log[1].kind = "out"
             /\ last.log[1].request = CH340_REQ_WRITE_REG
             /\ last.log[1].value = REG_BAUD
             /\ last.ret = last.log[Len(last.log)].r
             /\ Len(last.log) = 2 <=> last.log[1].r = 0
        /\ Len(last.log) = 2 =>
             /\ last.log[2].kind = "out"
             /\ last.log[2].request = CH340_REQ_WRITE_REG
             /\ last.log[2].value = REG_LCR2
             /\ last.log[2].index = last.lcr

\* the frame write failed after the baud write went through: the error is
\* returned and nothing else is written
C17_Witness ==
    /\ Synthesized
    /\ Len(last.log) = 2
    /\ last.log[1].r = 0
    /\ last.log[2].r < 0
    /\ last.ret = last.log[2].r

(* C14 *)
\* the RTS/DTR bits a TIOCM mask names
MaskBits(mask) ==
    BitOr(IF "RTS" \in mask THEN CH340_BIT_RTS ELSE 0,
          IF "DTR" \in mask THEN CH340_BIT_DTR ELSE 0)
\* the call just recorded is a ch340_tiocmset that sets only bits mcr had
SetsWhatIsSet(call) ==
    /\ call.op = "tiocmset"
    /\ call.clear = {}
    /\ BitAnd(MaskBits(call.set), call.pre.mcr) = MaskBits(call.set)

C14_State ==
    SetsWhatIsSet(last) =>
        /\ priv.mcr = last.pre.mcr
        /\ Len(last.log) = 1
        /\ last.log[1].kind = "out"
        /\ last.log[1].request = CH340_REQ_MODEM_CTRL
        /\ last.log[1].value % U8 = Not8(priv.mcr)

C14_Step ==
    (SetsWhatIsSet(last) /\ SetsWhatIsSet(last') /\ last'.set = last.set) =>
        /\ priv' = priv
        /\ last'.log[1].value = last.log[1].value

\* C14: a ch340_tiocmset with an empty clear mask and a set mask whose RTS/DTR
\* bits are all set in mcr already leaves mcr as it was and issues exactly one
\* MODEM_CTRL request, whose byte is the complement of mcr; repeating the call
\* issues the same byte again.
C14_SetIsIdempotent == [](C14_State) /\ [][C14_Step]_vars

\* RTS and DTR set again on a port that has both set
C14_Witness ==
    /\ last.op = "tiocmset"
    /\ last.set = {"RTS", "DTR"}
    /\ last.clear = {}
    /\ last.pre.mcr = RTS_DTR
    /\ priv.mcr = RTS_DTR
    /\ last.ret = 0
    /\ last.log[1].value % U8 = 159

(* C15 *)
\* the call recorded is a ch340_break_ctl(0) whose transfers succeeded, made
\* right after a ch340_break_ctl(nonzero) whose transfers succeeded
RoundTrip ==
    /\ last.op = "break_ctl"
    /\ last.state = 0
    /\ last.ok
    /\ last.prev.brk
    /\ last.prev.state # 0
    /\ last.prev.ok

\* C15 as stated: whatever the two registers held before the first call,
\* break on followed by break off leaves bit 0x01 of the break register and
\* bit 0x40 of the LCR as they were before the first call, and every other
\* bit of both registers unchanged.
C15_RoundTripRestores ==
    RoundTrip => dev.brk = last.prev.pre.brk /\ dev.lcr = last.prev.pre.lcr

\* C15 (amended): break on followed by break off leaves bit 0x01 of the break
\* register and bit 0x40 of the LCR set, and every other bit of both registers
\* unchanged; the two bits are as they were before the first call exactly when
\* both were set then, that is when the port was not in break already.
C15_RoundTripSets ==
    RoundTrip =>
        /\ dev.brk = BitOr(last.prev.pre.brk, CH340_NBREAK_BITS)
        /\ dev.lcr = BitOr(last.prev.pre.lcr, CH340_LCR_ENABLE_TX)
        /\ (dev.brk = last.prev.pre.brk /\ dev.lcr = last.prev.pre.lcr)
             <=> /\ BitAnd(last.prev.pre.brk, CH340_NBREAK_BITS) # 0
                 /\ BitAnd(last.prev.pre.lcr, CH340_LCR_ENABLE_TX) # 0

\* break on and off again on a port that was not in break, the break register
\* holding other bits as well: both registers are as before
C15_Witness ==
    /\ RoundTrip
    /\ last.prev.pre.brk = 171
    /\ BitAnd(last.prev.pre.lcr, CH340_LCR_ENABLE_TX) # 0
    /\ last.pre.brk = 170
    /\ BitAnd(last.pre.lcr, CH340_LCR_ENABLE_TX) = 0
    /\ dev.brk = 171
    /\ dev.lcr = last.prev.pre.lcr

(* C19 *)
\* the selectors of the register writes the call recorded may issue
Selectors ==
    IF last.op = "break_ctl" THEN {ch340_break_reg} ELSE {REG_BAUD, REG_LCR2}
\* the register value the call recorded has for a selector
RegisterValue(sel) ==
    CASE sel = REG_BAUD -> BaudPlan(Asked).a
      [] sel = REG_LCR2 -> last.lcr
      [] sel = ch340_break_reg ->
            IF last.state # 0
            THEN Clear8(last.pre.lcr, CH340_LCR_ENABLE_TX) * U8
                 + Clear8(last.pre.brk, CH340_NBREAK_BITS)
            ELSE BitOr(last.pre.lcr, CH340_LCR_ENABLE_TX) * U8
                 + BitOr(last.pre.brk, CH340_NBREAK_BITS)
RegisterWrites == {i \in 1 .. Len(last.log) : last.log[i].request = CH340_REQ_WRITE_REG}

\* C19 as stated: every register write is a vendor OUT transfer with request
\* 0x9A whose value field carries the register value and whose index field
\* carries the selector.
C19_ValueCarriesRegisterValue ==
    last.op \in {"break_ctl", "set_baudrate_lcr"} =>
        \A i \in RegisterWrites :
            /\ last.log[i].kind = "out"
            /\ last.log[i].index \in Selectors
            /\ last.log[i].value = RegisterValue(last.log[i].index)

\* C19 (amended): every register write is a vendor OUT transfer with request
\* 0x9A whose value field carries the selector (0x1312, 0x2518, 0x1805) and
\* whose index field carries the register value.
C19_ValueCarriesSelector ==
    last.op \in {"break_ctl", "set_baudrate_lcr"} =>
        \A i \in RegisterWrites :
            /\ last.log[i].kind = "out"
            /\ last.log[i].value \in Selectors
            /\ last.log[i].index = RegisterValue(last.log[i].value)

\* 9600 baud, 8N1: value 0x1312 with index 0xB282, then value 0x2518 with
\* index 0xC3
C19_Witness ==
    /\ last.op = "set_baudrate_lcr"
    /\ Len(last.log) = 2
    /\ last.log[1].request = 154
    /\ last.log[1].value = 4882
    /\ last.log[1].index = 45698
    /\ last.log[2].request = 154
    /\ last.log[2].value = 9496
    /\ last.log[2].index = 195
    /\ dev.lcr = 195

(* C16 *)
StatusFailed(log) ==
    \/ \E i \in Indices(log, "kmalloc") : log[i].r # 0
    \/ \E i \in StatusQueries(log) : log[i].r < 0
GenericOpenFailed(log) == \E i \in Indices(log, "generic_open") : log[i].r # 0

\* C16: ch340_open returns 0 only after the interrupt URB was submitted with
\* success and one status query after it succeeded and stored the modem bits
\* in msr.  If the submission fails no status query is issued; if the status
\* query or the generic open fails, the URB is killed last, before the error
\* is returned.  After a failed open the URB is not submitted.
C16_OpenOrder ==
    last.op = "open" =>
        LET log == last.log
            subs == Indices(log, "submit")
            qs == StatusQueries(log)
        IN  /\ Cardinality(subs) = 1
            /\ Cardinality(qs) <= 1
            /\ \A q \in qs : \E s \in subs : s < q /\ log[s].r = 0
            /\ last.ret = 0 =>
                  /\ SubmitDone(log)
                  /\ \E q \in qs : log[q].r = 0
                  /\ priv.msr = BitAnd(Not8(last.sb), CH340_BITS_MODEM_STAT)
                  /\ Indices(log, "kill") = {}
                  /\ initialized
                  /\ urb = "submitted"
            /\ SubmitFailed(log) =>
                  /\ EndsWith(log, "submit")
                  /\ last.ret = log[Len(log)].r
                  /\ qs = {}
                  /\ Indices(log, "kmalloc") = {}
                  /\ priv.msr = last.pre.msr
            /\ (SubmitDone(log) /\ (StatusFailed(log) \/ GenericOpenFailed(log))) =>
                  /\ EndsWith(log, "kill")
                  /\ Cardinality(Indices(log, "kill")) = 1
                  /\ last.ret = IF log[Len(log) - 1].kind = "kmalloc"
                                THEN 0 - ENOMEM
                                ELSE log[Len(log) - 1].r
                  /\ last.ret < 0
            /\ StatusFailed(log) =>
                  /\ Indices(log, "generic_open") = {}
                  /\ priv.msr = last.pre.msr
            /\ last.ret # 0 => (~initialized /\ urb = "idle")

\* the status query fails after the URB was submitted: the URB is killed and
\* the open fails
C16_Witness ==
    /\ last.op = "open"
    /\ SubmitDone(last.log)
    /\ \E q \in StatusQueries(last.log) : last.log[q].r < 0
    /\ EndsWith(last.log, "kill")
    /\ last.ret < 0
    /\ urb = "idle"

(* C18 *)
FrameWrites(log) ==
    {i \in Issued(log, CH340_REQ_WRITE_REG) : log[i].value = REG_LCR2}
BaudWrites(log) ==
    {i \in Issued(log, CH340_REQ_WRITE_REG) : log[i].value = REG_BAUD}
RxTx == BitOr(CH340_LCR_ENABLE_RX, CH340_LCR_ENABLE_TX)

\* C18: priv->lcr of a claimed port has the RX and TX enable bits set.  A call
\* on a claimed port leaves priv->lcr as it was unless it is ch340_set_termios
\* (called by the tty layer or by ch340_open) whose baud write and frame
\* write both succeeded; then priv->lcr is the byte the frame write carried.
\* A failed baud/frame step and a change to B0 leave it as it was.
C18_FrameFormat ==
    /\ claimed => BitAnd(priv.lcr, RxTx) = RxTx
    /\ (last.op = "port_probe" /\ claimed) =>
          priv.lcr = BitOr(RxTx, CH340_LCR_CS8)
    /\ last.op \in {"open", "close", "set_termios", "dtr_rts", "reset_resume"} =>
          IF last.op \in {"open", "set_termios"} /\ last.step = "ok"
          THEN /\ \E b \in BaudWrites(last.log) : last.log[b].r = 0
               /\ \E f \in FrameWrites(last.log) :
                     /\ last.log[f].r = 0
                     /\ priv.lcr = last.log[f].index
          ELSE /\ priv.lcr = last.pre.lcr
               /\ last.op \in {"open", "set_termios"} =>
                     \A f \in FrameWrites(last.log) : last.log[f].r # 0

\* a line-settings change to 7 bits, even parity, 2 stop bits whose frame
\* write fails leaves 8N1 in priv->lcr; the same change with both writes
\* succeeding stores the byte written
C18_Witness ==
    /\ last.op = "set_termios"
    /\ last.step = "ok"
    /\ last.pre.lcr = 195
    /\ priv.lcr = 222
    /\ \E f \in FrameWrites(last.log) : last.log[f].index = 222

C18_WitnessFailed ==
    /\ last.op = "set_termios"
    /\ last.step = "failed"
    /\ \E f \in FrameWrites(last.log) : last.log[f].index = 222 /\ last.log[f].r < 0
    /\ priv.lcr = 195

(* C20 *)
\* C20 as stated: when the modem-line calls (ch340_tiocmset, ch340_dtr_rts,
\* ch340_set_termios) have all returned, every transfer having succeeded, the
\* handshake byte the device received last is the complement of priv->mcr.
C20_DeviceAgrees ==
    (\A c \in Ctx : pc[c] = "idle") => dev.hs = Not8(priv.mcr)

=============================================================================
